---- MODULE Spec2Model ----
(***************************************************************************)
(* User-mode concurrency primitives of concurrency_user_mode: the          *)
(* single-counter shared_mutex, the counter+flag shared_mutex, the         *)
(* lock-free stack and the lock-free queue.  Every atomic operation and    *)
(* every access to memory another thread can reach is one step of one      *)
(* thread; the interleaving is sequentially consistent.                    *)
(***************************************************************************)
EXTENDS Integers, Sequences, FiniteSets, TLC

(***************************************************************************)
(* Bounds of the model.                                                    *)
(***************************************************************************)
\* threads using one single-counter shared_mutex
NumScThreads == 3

\* threads using one counter+flag shared_mutex
NumCfThreads == 3

\* threads the concurrent tests run on one stack or queue
NumCtThreads == 2
\* calls of push and pop the tasks make in all when every thread runs tasks
MaxOps == 3
\* calls of push and pop the tasks make in all when two threads run tasks
PairOps == 4
\* calls of push and pop a single-threaded test makes
SeqOps == 7
\* the constructor's argument initial_capacity
InitialCapacity == 1

\* threads that call pop and push of one node_list directly
NumLiThreads == 2
\* calls of node_list::pop and node_list::push those threads make in all
LiOps == 5
\* nodes on that node_list at the start
LiCapacity == 2

\* threads that lock one single-counter shared_mutex in the runs checked for progress
NumLvThreads == 2
\* calls of push and pop two tasks make in all in the runs checked for progress
LiveOps == 2
\* nodes of the longest chain reverseList is handed on its own
MaxChain == 4

\* calls of unlock_shared() that no call of lock_shared() went before
ScUnpaired == 1

\* threads that call push and pop of one stack_lf
NumLfThreads == 2
\* calls of push and pop those threads make in all
LfOps == 4
\* nodes on that stack_lf at the start
LfCapacity == 2

\* threads that call Singleton<T>::get()
NumSgThreads == 3

ScThreads == 1..NumScThreads
LvThreads == 1..NumLvThreads
CfThreads == 1..NumCfThreads
CtThreads == 1..NumCtThreads
LfThreads == 1..NumLfThreads
SgThreads == 1..NumSgThreads
LiThreads == 1..NumLiThreads
LiNodes == 1..LiCapacity

\* the largest number of calls of push in one run: each pushes its own value
MaxValues == IF MaxOps > SeqOps THEN MaxOps ELSE IF PairOps > SeqOps THEN PairOps ELSE SeqOps
\* malloc is called at most once per push beyond the initial capacity
MaxNodes == InitialCapacity + MaxValues

VARIABLES
    \* ---- single-counter shared_mutex (src/mutex/shared_mutex.h) ----
    m_counter,      \* atomic<int> m_counter
    sc_pc,          \* per thread: where it is in lock/lock_shared/unlock/unlock_shared
    sc_current_ctr, \* per thread: the local current_ctr of the call in progress
    sc_pd,          \* the protected data: two words an exclusive section updates one by one
    sc_seen,        \* per thread: the two words as a shared section read them
    \* ---- counter+flag shared_mutex (src/unnamed/part_003) ----
    m_shared_counter,   \* atomic<int> m_shared_counter
    m_exclusive_access, \* atomic<bool> m_exclusive_access
    cf_pc,              \* per thread: where it is in the call in progress
    cf_expected,        \* per thread: the local expected of lock()
    cf_current_ctr,     \* per thread: the local current_ctr of lock_shared()/unlock_shared()
    cf_may_lock,        \* the threads whose program calls lock()
    cf_pd,              \* the protected data, as sc_pd
    cf_seen,            \* per thread: the two words as a shared section read them
    cf_late,            \* the threads whose increment of m_shared_counter is in place and
                        \* was made while a lock() had set the flag and not yet returned
    \* ---- lock-free stack (src/unnamed/part_009) and queue (src/unnamed/part_006) ----
    sut,            \* the class the run is about: "stack" or "queue"
    active,         \* the threads that run tasks
    opsLeft,        \* calls of push and pop the tasks may still begin
    m_top,          \* the atomic<head> m_top of m_freeList, m_occupiedList, m_popList
    m_pushList,     \* node_push_list::m_top, an atomic<node *>
    m_refillLock,   \* atomic_flag m_refillLock
    pPrevious,      \* node::pPrevious of every node
    item,           \* node::item of every node; Vacant when no T lives there
    allocated,      \* nodes obtained from malloc so far
    local,          \* per thread: its position and the locals of its call
    nextValue,      \* the value the next call of push pushes
    pushed,         \* the values whose push has returned
    popCount,       \* per value: how many calls of pop have returned true with it
                    \* (Vacant: with the content of an item that was destructed)
    phase,          \* "run": tasks run; "drain": the main thread pops; "done"
    raced,          \* the calls of the test have interfered with each other
    maxLive,        \* the most values there have been pushed and not popped
    \* ---- one node_list whose pop and push are called directly ----
    li_top,         \* the atomic<head> m_top of the list
    li_pPrevious,   \* node::pPrevious of every node
    li_local,       \* per thread: its position, the locals of its call, the nodes
                    \* it was handed by pop and has not pushed
    li_opsLeft,     \* calls of pop and push that may still begin
    \* ---- what the memory orders of the single-counter shared_mutex establish ----
    hb_track,       \* the run keeps track of happens-before
    hb_events,      \* accesses to the protected data made so far: 0 is the latest
                    \* write, t the latest read by thread t
    hb_before,      \* per thread: the accesses that happen before its next step
    hb_released,    \* the accesses that happen before the release operation heading
                    \* the release sequence that m_counter's value belongs to
    \* ---- the order of the calls of push ----
    precededBy,     \* per value: the values whose push had returned when its push
                    \* began; <<>> in a run that keeps no track of it
    \* ---- stack_lf, the stack without tags (src/stack/stack_lf_unbounded_pta.h) ----
    lf_top,         \* std::atomic<node *> m_top
    lf_previous,    \* node::m_previous, per address
    lf_item,        \* node::m_item, per address; Vacant where no node lives
    lf_allocated,   \* the addresses at which a node lives (new has returned, delete
                    \* has not been called)
    lf_gen,         \* per address: how many nodes new has placed there so far
    lf_local,       \* per thread: its position and the locals of its call; seen is
                    \* the lf_gen of the node it loaded as top (0: no node lived there)
    lf_opsLeft,     \* calls of push and pop that may still begin
    lf_aba,         \* some pop's exchange has succeeded on a recycled node
    \* ---- Singleton<T> (src/singleton/singleton.h) ----
    sg_pObj,        \* std::atomic<T *> m_pObj: 0 is nullptr, else the number of an object
    sg_mtx,         \* std::mutex m_mtx: the thread that holds it, 0 when free
    sg_objects,     \* how many times new T() has begun
    sg_complete,    \* the objects whose constructor has returned
    sg_local,       \* per thread: its position in get() and its local pObj
    sg_got,         \* per thread: what its last get() returned (0: no call returned yet)
    \* ---- misuse of the single-counter shared_mutex ----
    sc_unpaired,    \* calls of unlock_shared() without a lock_shared() that may still begin
    \* ---- the scheduler ----
    stalled         \* the thread that may stop taking steps for good (0: none may)

scVars == <<m_counter, sc_pc, sc_current_ctr, sc_pd, sc_seen>>

cfVars == <<m_shared_counter, m_exclusive_access, cf_pc, cf_expected, cf_current_ctr,
            cf_may_lock, cf_pd, cf_seen, cf_late>>

ctVars == <<sut, active, opsLeft, m_top, m_pushList, m_refillLock, pPrevious, item,
            allocated, local, nextValue, pushed, popCount, phase, raced, maxLive>>

liVars == <<li_top, li_pPrevious, li_local, li_opsLeft>>

hbVars == <<hb_track, hb_events, hb_before, hb_released>>

lfVars == <<lf_top, lf_previous, lf_item, lf_allocated, lf_gen, lf_local, lf_opsLeft, lf_aba>>

sgVars == <<sg_pObj, sg_mtx, sg_objects, sg_complete, sg_local, sg_got>>

vars == <<scVars, cfVars, ctVars, liVars, hbVars, precededBy, stalled, lfVars, sgVars, sc_unpaired>>

\* what the operations of one class leave alone: the other classes and the scheduler
scRest == <<cfVars, ctVars, liVars, precededBy, stalled, lfVars, sgVars>>
scOthers == <<scRest, sc_unpaired>>
cfOthers == <<scVars, ctVars, liVars, hbVars, precededBy, stalled, lfVars, sgVars, sc_unpaired>>
ctOthers == <<scVars, cfVars, liVars, hbVars, precededBy, stalled, lfVars, sgVars, sc_unpaired>>
liOthers == <<scVars, cfVars, ctVars, hbVars, precededBy, stalled, lfVars, sgVars, sc_unpaired>>
lfOthers == <<scVars, cfVars, ctVars, liVars, hbVars, precededBy, stalled, sgVars, sc_unpaired>>
sgOthers == <<scVars, cfVars, ctVars, liVars, hbVars, precededBy, stalled, lfVars, sc_unpaired>>

(***************************************************************************)
(* Single-counter shared_mutex.                                            *)
(*                                                                         *)
(* compare_exchange_weak may fail spuriously; in every loop of this class  *)
(* a spurious failure reloads the expected value with the value it already *)
(* holds, so it is a stuttering step and is not a separate action.         *)
(***************************************************************************)
\* no access to the protected data has been made
HbInit ==
    /\ hb_events = {}
    /\ hb_before = [t \in ScThreads |-> {}]
    /\ hb_released = {}

\* Thread t performs an atomic operation on m_counter: kind is "load", "store" or
\* "rmw" (a compare-exchange that fails is a load), order its memory order.  The
\* operation reads the latest value.  An acquire load or rmw synchronizes with the
\* release operation heading the release sequence the value belongs to; a release
\* store heads a new release sequence, a relaxed store ends it, an rmw continues it
\* and, when it is a release, heads one of its own as well.
HbAtomic(t, kind, order) ==
    IF ~hb_track
    THEN UNCHANGED hbVars
    ELSE /\ hb_before' =
                IF kind \in {"load", "rmw"} /\ order = "acquire"
                THEN [hb_before EXCEPT ![t] = @ \cup hb_released]
                ELSE hb_before
         /\ hb_released' =
                IF kind = "store"
                THEN (IF order = "release" THEN hb_before[t] ELSE {})
                ELSE IF kind = "rmw" /\ order = "release"
                     THEN hb_released \cup hb_before[t]
                     ELSE hb_released
         /\ UNCHANGED <<hb_track, hb_events>>

\* Thread t accesses the protected data; the access becomes event e (0: the latest
\* write; t: the latest read by t).  It is sequenced before what t does next, and
\* nothing else has synchronized with it yet.
HbAccess(t, e) ==
    IF ~hb_track
    THEN UNCHANGED hbVars
    ELSE /\ hb_events' = hb_events \cup {e}
         /\ hb_before' = [u \in ScThreads |->
                            IF u = t THEN hb_before[u] \cup {e} ELSE hb_before[u] \ {e}]
         /\ hb_released' = hb_released \ {e}
         /\ UNCHANGED hb_track

\* shared_mutex() : m_counter{0}; the protected words agree
ScInit ==
    /\ m_counter = 0
    /\ sc_pc = [t \in ScThreads |-> "idle"]
    /\ sc_current_ctr = [t \in ScThreads |-> 0]
    /\ sc_pd = <<0, 0>>
    /\ sc_seen = [t \in ScThreads |-> <<0, 0>>]

\* lock(): int current_ctr = 0;
sc_lock_enter(t) ==
    /\ sc_pc[t] = "idle"
    /\ sc_pc' = [sc_pc EXCEPT ![t] = "lock_cas"]
    /\ sc_current_ctr' = [sc_current_ctr EXCEPT ![t] = 0]
    /\ UNCHANGED <<m_counter, sc_pd, sc_seen>>
    /\ UNCHANGED hbVars
    /\ UNCHANGED scOthers

\* lock() whose claim stores -1 over any non-negative counter and takes the number
\* of shared holders to be the current_ctr it had
sc_lock_cas_blind(t) ==
    /\ sc_pc[t] = "lock_cas"
    /\ IF m_counter >= 0
       THEN /\ m_counter' = -1
            /\ sc_pc' = [sc_pc EXCEPT ![t] = "lock_wait"]
       ELSE UNCHANGED <<m_counter, sc_pc>>
    /\ UNCHANGED <<sc_current_ctr, sc_pd, sc_seen>>
    /\ HbAtomic(t, "rmw", "relaxed")
    /\ UNCHANGED scOthers

\* lock(): one turn of  while (!m_counter.compare_exchange_weak(current_ctr, -1)) {...}
sc_lock_cas(t) ==
    /\ sc_pc[t] = "lock_cas"
    /\ IF m_counter = sc_current_ctr[t]
       THEN /\ m_counter' = -1
            /\ sc_pc' = [sc_pc EXCEPT ![t] = "lock_wait"]
            /\ UNCHANGED sc_current_ctr
       ELSE /\ sc_current_ctr' = [sc_current_ctr EXCEPT
                                    ![t] = IF m_counter < 0 THEN 0 ELSE m_counter]
            /\ UNCHANGED <<m_counter, sc_pc>>
    /\ UNCHANGED <<sc_pd, sc_seen>>
    /\ HbAtomic(t, IF m_counter = sc_current_ctr[t] THEN "rmw" ELSE "load", "relaxed")
    /\ UNCHANGED scOthers

\* sc_lock_wait as a lock() that does not wait for the shared holders it found to leave
sc_lock_wait_no_drain(t) ==
    /\ sc_pc[t] = "lock_wait"
    /\ sc_pc' = [sc_pc EXCEPT ![t] = "exclusive"]
    /\ UNCHANGED <<m_counter, sc_current_ctr, sc_pd, sc_seen>>
    /\ HbAtomic(t, "load", "acquire")
    /\ UNCHANGED scOthers

\* lock() that returns while one shared section is still under way
sc_lock_wait_one_early(t) ==
    /\ sc_pc[t] = "lock_wait"
    /\ LET ctr == m_counter
           rest == (0 - sc_current_ctr[t]) - 1
       IN  sc_pc' = [sc_pc EXCEPT ![t] =
                        IF ctr = rest \/ ctr = rest + 1 THEN "exclusive"
                        ELSE IF ctr < rest THEN "logic_error"
                        ELSE "lock_wait"]
    /\ UNCHANGED <<m_counter, sc_current_ctr, sc_pd, sc_seen>>
    /\ HbAtomic(t, "load", "acquire")
    /\ UNCHANGED scOthers

\* lock() that waits for one more unlock_shared() than there were shared sections
sc_lock_wait_one_more(t) ==
    /\ sc_pc[t] = "lock_wait"
    /\ LET ctr == m_counter
           rest == (0 - sc_current_ctr[t]) - 2
       IN  sc_pc' = [sc_pc EXCEPT ![t] =
                        IF ctr = rest THEN "exclusive"
                        ELSE IF ctr < rest THEN "logic_error"
                        ELSE "lock_wait"]
    /\ UNCHANGED <<m_counter, sc_current_ctr, sc_pd, sc_seen>>
    /\ HbAtomic(t, "load", "acquire")
    /\ UNCHANGED scOthers

\* lock() that sets the counter to 0 before it throws
sc_lock_wait_restoring(t) ==
    /\ sc_pc[t] = "lock_wait"
    /\ LET ctr == m_counter
           rest == (0 - sc_current_ctr[t]) - 1
       IN  /\ sc_pc' = [sc_pc EXCEPT ![t] =
                            IF ctr = rest THEN "exclusive"
                            ELSE IF ctr < rest THEN "logic_error"
                            ELSE "lock_wait"]
           /\ m_counter' = IF ctr < rest THEN 0 ELSE m_counter
    /\ UNCHANGED <<sc_current_ctr, sc_pd, sc_seen>>
    /\ HbAtomic(t, "load", "acquire")
    /\ UNCHANGED scOthers

\* lock(): one turn of  while ((ctr = m_counter.load()) != (-current_ctr - 1)) {throw if below}
sc_lock_wait(t) ==
    /\ sc_pc[t] = "lock_wait"
    /\ LET ctr == m_counter
           rest == (0 - sc_current_ctr[t]) - 1
       IN  sc_pc' = [sc_pc EXCEPT ![t] =
                        IF ctr = rest THEN "exclusive"
                        ELSE IF ctr < rest THEN "logic_error"
                        ELSE "lock_wait"]
    /\ UNCHANGED <<m_counter, sc_current_ctr, sc_pd, sc_seen>>
    /\ HbAtomic(t, "load", "acquire")
    /\ UNCHANGED scOthers

\* the exclusive section: the first word of the protected data is written
sc_write_first(t) ==
    /\ sc_pc[t] = "exclusive"
    /\ sc_pd' = <<1 - sc_pd[1], sc_pd[2]>>
    /\ sc_pc' = [sc_pc EXCEPT ![t] = "exclusive_half"]
    /\ UNCHANGED <<m_counter, sc_current_ctr, sc_seen>>
    /\ HbAccess(t, 0)
    /\ UNCHANGED scOthers

\* the exclusive section: the second word follows the first
sc_write_second(t) ==
    /\ sc_pc[t] = "exclusive_half"
    /\ sc_pd' = <<sc_pd[1], sc_pd[1]>>
    /\ sc_pc' = [sc_pc EXCEPT ![t] = "exclusive_done"]
    /\ UNCHANGED <<m_counter, sc_current_ctr, sc_seen>>
    /\ HbAccess(t, 0)
    /\ UNCHANGED scOthers

\* unlock() that takes back the one step by which its claim lowered the counter
sc_unlock_add_one(t) ==
    /\ sc_pc[t] = "exclusive_done"
    /\ m_counter' = m_counter + 1
    /\ sc_pc' = [sc_pc EXCEPT ![t] = "idle"]
    /\ UNCHANGED <<sc_current_ctr, sc_pd, sc_seen>>
    /\ HbAtomic(t, "store", "release")
    /\ UNCHANGED scOthers

\* unlock(): m_counter.store(0)
sc_unlock(t) ==
    /\ sc_pc[t] = "exclusive_done"
    /\ m_counter' = 0
    /\ sc_pc' = [sc_pc EXCEPT ![t] = "idle"]
    /\ UNCHANGED <<sc_current_ctr, sc_pd, sc_seen>>
    /\ HbAtomic(t, "store", "release")
    /\ UNCHANGED scOthers

\* lock_shared(): int current_ctr = 0;
sc_lock_shared_enter(t) ==
    /\ sc_pc[t] = "idle"
    /\ sc_pc' = [sc_pc EXCEPT ![t] = "lock_shared_cas"]
    /\ sc_current_ctr' = [sc_current_ctr EXCEPT ![t] = 0]
    /\ UNCHANGED <<m_counter, sc_pd, sc_seen>>
    /\ UNCHANGED hbVars
    /\ UNCHANGED scOthers

\* sc_lock_shared_cas as a lock_shared() that resets current_ctr to 0 after every failed
\* exchange, so that it only ever enters an unheld mutex
sc_lock_shared_cas_from_zero(t) ==
    /\ sc_pc[t] = "lock_shared_cas"
    /\ IF m_counter = sc_current_ctr[t]
       THEN /\ m_counter' = sc_current_ctr[t] + 1
            /\ sc_pc' = [sc_pc EXCEPT ![t] = "shared"]
            /\ UNCHANGED sc_current_ctr
       ELSE /\ sc_current_ctr' = [sc_current_ctr EXCEPT ![t] = 0]
            /\ UNCHANGED <<m_counter, sc_pc>>
    /\ UNCHANGED <<sc_pd, sc_seen>>
    /\ HbAtomic(t, IF m_counter = sc_current_ctr[t] THEN "rmw" ELSE "load",
                IF m_counter = sc_current_ctr[t] THEN "acquire" ELSE "relaxed")
    /\ UNCHANGED scOthers

\* lock_shared() that keeps a negative value as the value it expects
sc_lock_shared_cas_no_reset(t) ==
    /\ sc_pc[t] = "lock_shared_cas"
    /\ IF m_counter = sc_current_ctr[t]
       THEN /\ m_counter' = sc_current_ctr[t] + 1
            /\ sc_pc' = [sc_pc EXCEPT ![t] = "shared"]
            /\ UNCHANGED sc_current_ctr
       ELSE /\ sc_current_ctr' = [sc_current_ctr EXCEPT
                                    ![t] = m_counter]
            /\ UNCHANGED <<m_counter, sc_pc>>
    /\ UNCHANGED <<sc_pd, sc_seen>>
    /\ HbAtomic(t, IF m_counter = sc_current_ctr[t] THEN "rmw" ELSE "load",
                IF m_counter = sc_current_ctr[t] THEN "acquire" ELSE "relaxed")
    /\ UNCHANGED scOthers

\* lock_shared(): one turn of  while (!m_counter.compare_exchange_weak(current_ctr, current_ctr + 1)) {...}
sc_lock_shared_cas(t) ==
    /\ sc_pc[t] = "lock_shared_cas"
    /\ IF m_counter = sc_current_ctr[t]
       THEN /\ m_counter' = sc_current_ctr[t] + 1
            /\ sc_pc' = [sc_pc EXCEPT ![t] = "shared"]
            /\ UNCHANGED sc_current_ctr
       ELSE /\ sc_current_ctr' = [sc_current_ctr EXCEPT
                                    ![t] = IF m_counter < 0 THEN 0 ELSE m_counter]
            /\ UNCHANGED <<m_counter, sc_pc>>
    /\ UNCHANGED <<sc_pd, sc_seen>>
    /\ HbAtomic(t, IF m_counter = sc_current_ctr[t] THEN "rmw" ELSE "load",
                IF m_counter = sc_current_ctr[t] THEN "acquire" ELSE "relaxed")
    /\ UNCHANGED scOthers

\* the shared section: the reader reads both words of the protected data
sc_read(t) ==
    /\ sc_pc[t] = "shared"
    /\ sc_seen' = [sc_seen EXCEPT ![t] = sc_pd]
    /\ sc_pc' = [sc_pc EXCEPT ![t] = "shared_done"]
    /\ UNCHANGED <<m_counter, sc_current_ctr, sc_pd>>
    /\ HbAccess(t, t)
    /\ UNCHANGED scOthers

\* unlock_shared(): int current_ctr = m_counter.load();
sc_unlock_shared_load(t) ==
    /\ sc_pc[t] = "shared_done"
    /\ sc_current_ctr' = [sc_current_ctr EXCEPT ![t] = m_counter]
    /\ sc_pc' = [sc_pc EXCEPT ![t] = "unlock_shared_cas"]
    /\ UNCHANGED <<m_counter, sc_pd, sc_seen>>
    /\ HbAtomic(t, "load", "relaxed")
    /\ UNCHANGED scOthers

\* unlock_shared() that leaves a negative counter as it is
sc_unlock_shared_cas_clamped(t) ==
    /\ sc_pc[t] = "unlock_shared_cas"
    /\ IF m_counter = sc_current_ctr[t]
       THEN /\ m_counter' = IF m_counter < 0 THEN m_counter ELSE sc_current_ctr[t] - 1
            /\ sc_pc' = [sc_pc EXCEPT ![t] = "idle"]
            /\ sc_current_ctr' = [sc_current_ctr EXCEPT ![t] = 0]
            /\ sc_seen' = [sc_seen EXCEPT ![t] = <<0, 0>>]
       ELSE /\ sc_current_ctr' = [sc_current_ctr EXCEPT ![t] = m_counter]
            /\ UNCHANGED <<m_counter, sc_pc, sc_seen>>
    /\ UNCHANGED sc_pd
    /\ HbAtomic(t, IF m_counter = sc_current_ctr[t] THEN "rmw" ELSE "load", "relaxed")
    /\ UNCHANGED scOthers

\* unlock_shared(): one turn of  while (!m_counter.compare_exchange_weak(current_ctr, current_ctr - 1));
sc_unlock_shared_cas(t) ==
    /\ sc_pc[t] = "unlock_shared_cas"
    /\ IF m_counter = sc_current_ctr[t]
       THEN /\ m_counter' = sc_current_ctr[t] - 1
            /\ sc_pc' = [sc_pc EXCEPT ![t] = "idle"]
            /\ sc_current_ctr' = [sc_current_ctr EXCEPT ![t] = 0]
            /\ sc_seen' = [sc_seen EXCEPT ![t] = <<0, 0>>]
       ELSE /\ sc_current_ctr' = [sc_current_ctr EXCEPT ![t] = m_counter]
            /\ UNCHANGED <<m_counter, sc_pc, sc_seen>>
    /\ UNCHANGED sc_pd
    /\ HbAtomic(t, IF m_counter = sc_current_ctr[t] THEN "rmw" ELSE "load", "relaxed")
    /\ UNCHANGED scOthers

\* unlock_shared() by a thread that holds no shared access:
\* int current_ctr = m_counter.load();
sc_unlock_shared_unpaired(t) ==
    /\ sc_pc[t] = "idle"
    /\ sc_unpaired > 0
    /\ sc_unpaired' = sc_unpaired - 1
    /\ sc_current_ctr' = [sc_current_ctr EXCEPT ![t] = m_counter]
    /\ sc_pc' = [sc_pc EXCEPT ![t] = "unlock_shared_cas"]
    /\ UNCHANGED <<m_counter, sc_pd, sc_seen>>
    /\ HbAtomic(t, "load", "relaxed")
    /\ UNCHANGED scRest

\* unlock() by the thread whose lock() threw logic_error: m_counter.store(0)
sc_unlock_after_throw(t) ==
    /\ sc_pc[t] = "logic_error"
    /\ m_counter' = 0
    /\ sc_pc' = [sc_pc EXCEPT ![t] = "idle"]
    /\ UNCHANGED <<sc_current_ctr, sc_pd, sc_seen>>
    /\ HbAtomic(t, "store", "release")
    /\ UNCHANGED scOthers

ScStep ==
    \E t \in ScThreads :
        \/ sc_lock_enter(t)
        \/ sc_lock_cas(t)
        \/ sc_lock_wait(t)
        \/ sc_write_first(t)
        \/ sc_write_second(t)
        \/ sc_unlock(t)
        \/ sc_lock_shared_enter(t)
        \/ sc_lock_shared_cas(t)
        \/ sc_read(t)
        \/ sc_unlock_shared_load(t)
        \/ sc_unlock_shared_cas(t)

\* lock() has returned and unlock() has not been called
ScInExclusive(t) == sc_pc[t] \in {"exclusive", "exclusive_half", "exclusive_done"}

\* lock_shared() has returned and unlock_shared() has not started
ScInShared(t) == sc_pc[t] \in {"shared", "shared_done"}

\* a lock() has won its claiming exchange and unlock() has not been called
ScClaimed(t) == sc_pc[t] = "lock_wait" \/ ScInExclusive(t)

\* C1: single-counter shared_mutex, mutual exclusion.  While a thread is inside an
\* exclusive section no other thread is inside an exclusive or a shared section, and
\* what a reader read inside its shared section is the protected data as a completed
\* exclusive section left it: both words agree.
C1_ScMutualExclusion ==
    /\ \A t \in ScThreads : ScInExclusive(t) =>
            \A u \in ScThreads \ {t} : ~ScInExclusive(u) /\ ~ScInShared(u)
    /\ \A t \in ScThreads : sc_pc[t] = "shared_done" => sc_seen[t][1] = sc_seen[t][2]

\* C1's case: a writer is half way through its update while a second thread is in
\* lock_shared() and a third in lock()
C1_Witness ==
    \E t, u, w \in ScThreads :
        /\ sc_pc[t] = "exclusive_half" /\ sc_pd[1] /= sc_pd[2]
        /\ sc_pc[u] = "lock_shared_cas"
        /\ sc_pc[w] = "lock_cas"

\* the step of lock_shared() that enters the shared section
ScSharedGranted(t) == sc_lock_shared_cas(t) /\ sc_pc'[t] = "shared"

\* the step of lock_shared() that brings current_ctr up to the counter
ScSharedRefreshed(t) == sc_lock_shared_cas(t) /\ sc_current_ctr'[t] = m_counter

\* C7: shared access is concurrent.  While no thread holds or has claimed exclusive
\* access, a thread in lock_shared() is admitted however many threads hold shared
\* access: its exchange succeeds when current_ctr is the counter, and otherwise
\* brings current_ctr to the counter, whatever its value.
C7_SharedAdmitted ==
    \A t \in ScThreads :
        (sc_pc[t] = "lock_shared_cas" /\ \A u \in ScThreads : ~ScClaimed(u)) =>
            /\ m_counter >= 0
            /\ IF sc_current_ctr[t] = m_counter
               THEN ENABLED ScSharedGranted(t)
               ELSE ENABLED ScSharedRefreshed(t)

\* C7's case: a thread is about to be admitted to a mutex that two threads hold shared
C7_Witness ==
    \E t \in ScThreads :
        /\ sc_pc[t] = "lock_shared_cas"
        /\ sc_current_ctr[t] = m_counter
        /\ Cardinality({u \in ScThreads : ScInShared(u)}) >= 2

\* every thread but t is in no call
ScAlone(t) == \A u \in ScThreads \ {t} : sc_pc[u] = "idle"

\* C16: the single-counter shared_mutex returns to rest.  When no thread is in a
\* call or a section the counter is 0; unlock() brings it from a negative value to 0;
\* and a lock() or lock_shared() made by one thread while the others are in no call
\* does not wait: its exchange finds the counter 0 and, for lock(), its wait loop
\* finds the counter -1.
C16_ScReturnsToRest ==
    /\ []((\A t \in ScThreads : sc_pc[t] = "idle") => m_counter = 0)
    /\ [](\A t \in ScThreads : (ScAlone(t) /\ sc_current_ctr[t] = 0) =>
            /\ sc_pc[t] \in {"lock_cas", "lock_shared_cas"} => m_counter = 0
            /\ sc_pc[t] = "lock_wait" => m_counter = -1)
    /\ [][\A t \in ScThreads :
            (sc_pc[t] = "exclusive_done" /\ sc_pc'[t] = "idle") =>
                m_counter < 0 /\ m_counter' = 0]_vars

\* the mutex at rest after an exclusive section whose claim found a shared holder
\* and brought the counter to -2 or below
C16_Witness ==
    /\ \A t \in ScThreads : sc_pc[t] = "idle"
    /\ m_counter = 0
    /\ sc_pd = <<1, 1>>
    /\ \E t \in ScThreads : sc_current_ctr[t] >= 1

\* C17: consistency check of the single-counter shared_mutex.  With every unlock
\* and unlock_shared paired with its lock and lock_shared, a lock() that waits after
\* its claim replaced the counter value n never finds the counter below -n-1, and
\* no lock() raises logic_error.
C17_ScNoLogicError ==
    \A t \in ScThreads :
        /\ sc_pc[t] /= "logic_error"
        /\ sc_pc[t] = "lock_wait" => m_counter >= (0 - sc_current_ctr[t]) - 1

\* a lock() whose claim found two shared holders waits with the counter at -3, both
\* having left
C17_Witness ==
    \E t \in ScThreads :
        /\ sc_pc[t] = "lock_wait"
        /\ sc_current_ctr[t] = 2
        /\ m_counter = -3

\* the threads whose lock_shared() has incremented the counter and whose
\* unlock_shared() has not yet decremented it
ScHolders == {t \in ScThreads : sc_pc[t] \in {"shared", "shared_done", "unlock_shared_cas"}}

\* C23: what the counter means.  While it is not negative it is the number of
\* threads that hold shared access, and no thread has claimed or holds exclusive
\* access; while a lock() that replaced n has claimed and h shared holders have not
\* left, it is -1-(n-h).
C23_CounterMeaning ==
    /\ m_counter >= 0 =>
            /\ m_counter = Cardinality(ScHolders)
            /\ \A t \in ScThreads : ~ScClaimed(t)
    /\ \A t \in ScThreads :
            ScClaimed(t) =>
                m_counter = (0 - 1) - (sc_current_ctr[t] - Cardinality(ScHolders))

\* a lock() has claimed over two shared holders, and one of them has left
C23_Witness ==
    \E t \in ScThreads :
        /\ sc_pc[t] = "lock_wait"
        /\ sc_current_ctr[t] = 2
        /\ Cardinality(ScHolders) = 1
        /\ m_counter = -2

\* C24: when lock() is granted.  lock() returns only when the counter is -n-1, n
\* being the value its claim replaced, and then no shared holder is left; from the
\* claim to unlock() the counter is negative, and once it is -n-1 no step changes it
\* before unlock().
C24_GrantCondition ==
    /\ [](\A t \in ScThreads : ScClaimed(t) => m_counter < 0)
    /\ [][\A t \in ScThreads :
            /\ (sc_pc[t] = "lock_wait" /\ sc_pc'[t] = "exclusive") =>
                    /\ m_counter = (0 - sc_current_ctr[t]) - 1
                    /\ ScHolders = {}
            /\ (ScClaimed(t) /\ m_counter = (0 - sc_current_ctr[t]) - 1
                    /\ sc_pc'[t] /= "idle") =>
                    m_counter' = m_counter]_vars

\* a lock() that claimed over two shared holders is inside its exclusive section
C24_Witness ==
    \E t \in ScThreads :
        /\ ScInExclusive(t)
        /\ sc_current_ctr[t] = 2
        /\ m_counter = -3

\* C25: the entry gate.  While a lock() has claimed and its unlock() has not stored
\* 0, no lock_shared() of another thread returns and no lock() of another thread
\* wins its claiming exchange: each such exchange fails and leaves 0 as the value its
\* thread expects next.
C25_EntryGate ==
    [][\A t \in ScThreads :
        ((\E u \in ScThreads \ {t} : ScClaimed(u))
            /\ (sc_lock_cas(t) \/ sc_lock_shared_cas(t))) =>
                /\ sc_pc'[t] = sc_pc[t]
                /\ sc_current_ctr'[t] = 0
                /\ m_counter' = m_counter]_vars

\* a lock() has claimed while another thread's lock_shared() is about to try its
\* exchange with the positive value it last saw
C25_Witness ==
    \E t, u \in ScThreads :
        /\ t /= u
        /\ ScClaimed(u)
        /\ sc_pc[t] = "lock_shared_cas"
        /\ sc_current_ctr[t] > 0

\* every write made to the protected data happens before the accesses of a thread
\* that has been granted a section
WritesVisible ==
    \A t \in ScThreads :
        (ScInShared(t) \/ ScInExclusive(t)) =>
            (0 \in hb_events => 0 \in hb_before[t])

\* every read made in a shared section happens before the writes of a thread that
\* has been granted an exclusive section
ReadsOrdered ==
    \A t \in ScThreads :
        ScInExclusive(t) => (hb_events \ {0}) \subseteq hb_before[t]

\* C21: the happens-before contract.  With the memory orders the calls use, every
\* write made in an exclusive section happens before every read made in a section
\* granted afterwards, and every read made in a shared section happens before the
\* writes of the exclusive section granted after the reader's unlock_shared().
C21_HappensBefore == hb_track => (WritesVisible /\ ReadsOrdered)

(***************************************************************************)
(* Counter+flag shared_mutex.  Spurious failures of compare_exchange_weak  *)
(* are stuttering steps here too.                                          *)
(***************************************************************************)
\* shared_mutex() : m_shared_counter{0}, m_exclusive_access{false}
CfInit ==
    /\ m_shared_counter = 0
    /\ m_exclusive_access = FALSE
    /\ cf_pc = [t \in CfThreads |-> "idle"]
    /\ cf_expected = [t \in CfThreads |-> FALSE]
    /\ cf_current_ctr = [t \in CfThreads |-> 0]
    /\ cf_pd = <<0, 0>>
    /\ cf_seen = [t \in CfThreads |-> <<0, 0>>]
    /\ cf_late = {}

\* lock(): bool expected = false;
cf_lock_enter(t) ==
    /\ cf_pc[t] = "idle"
    /\ t \in cf_may_lock
    /\ cf_pc' = [cf_pc EXCEPT ![t] = "lock_cas"]
    /\ cf_expected' = [cf_expected EXCEPT ![t] = FALSE]
    /\ UNCHANGED <<m_shared_counter, m_exclusive_access, cf_current_ctr, cf_may_lock,
                   cf_pd, cf_seen>>
    /\ UNCHANGED cf_late
    /\ UNCHANGED cfOthers

\* lock(): one turn of  while (!m_exclusive_access.compare_exchange_weak(expected, true));
\* The loop's body is the empty statement: a failed exchange leaves the flag's value in
\* expected and nothing sets it back to false before the next turn.  The block
\* { expected = false; } runs once, after the loop.
cf_lock_cas(t) ==
    /\ cf_pc[t] = "lock_cas"
    /\ IF m_exclusive_access = cf_expected[t]
       THEN /\ m_exclusive_access' = TRUE
            /\ cf_expected' = [cf_expected EXCEPT ![t] = FALSE]
            /\ cf_pc' = [cf_pc EXCEPT ![t] = "lock_wait"]
       ELSE /\ cf_expected' = [cf_expected EXCEPT ![t] = m_exclusive_access]
            /\ UNCHANGED <<m_exclusive_access, cf_pc>>
    /\ UNCHANGED <<m_shared_counter, cf_current_ctr, cf_may_lock, cf_pd, cf_seen>>
    /\ UNCHANGED cf_late
    /\ UNCHANGED cfOthers

\* lock(): one turn of  while ((ctr = m_shared_counter.load()) != 0) {throw if ctr < 0}
cf_lock_wait(t) ==
    /\ cf_pc[t] = "lock_wait"
    /\ LET ctr == m_shared_counter
       IN  cf_pc' = [cf_pc EXCEPT ![t] =
                        IF ctr = 0 THEN "exclusive"
                        ELSE IF ctr < 0 THEN "logic_error"
                        ELSE "lock_wait"]
    /\ UNCHANGED <<m_shared_counter, m_exclusive_access, cf_expected, cf_current_ctr,
                   cf_may_lock, cf_pd, cf_seen>>
    /\ UNCHANGED cf_late
    /\ UNCHANGED cfOthers

\* the exclusive section: the first word of the protected data is written
cf_write_first(t) ==
    /\ cf_pc[t] = "exclusive"
    /\ cf_pd' = <<1 - cf_pd[1], cf_pd[2]>>
    /\ cf_pc' = [cf_pc EXCEPT ![t] = "exclusive_half"]
    /\ UNCHANGED <<m_shared_counter, m_exclusive_access, cf_expected, cf_current_ctr,
                   cf_may_lock, cf_seen>>
    /\ UNCHANGED cf_late
    /\ UNCHANGED cfOthers

\* the exclusive section: the second word follows the first
cf_write_second(t) ==
    /\ cf_pc[t] = "exclusive_half"
    /\ cf_pd' = <<cf_pd[1], cf_pd[1]>>
    /\ cf_pc' = [cf_pc EXCEPT ![t] = "exclusive_done"]
    /\ UNCHANGED <<m_shared_counter, m_exclusive_access, cf_expected, cf_current_ctr,
                   cf_may_lock, cf_seen>>
    /\ UNCHANGED cf_late
    /\ UNCHANGED cfOthers

\* unlock(): m_exclusive_access.store(false)
cf_unlock(t) ==
    /\ cf_pc[t] = "exclusive_done"
    /\ m_exclusive_access' = FALSE
    /\ cf_pc' = [cf_pc EXCEPT ![t] = "idle"]
    /\ UNCHANGED <<m_shared_counter, cf_expected, cf_current_ctr, cf_may_lock, cf_pd,
                   cf_seen>>
    /\ UNCHANGED cf_late
    /\ UNCHANGED cfOthers

\* lock_shared(): int current_ctr = m_shared_counter.load();  Also the recursive call
\* lock_shared() that ends the back-out path: it is the last statement of its caller.
cf_lock_shared_enter(t) ==
    /\ cf_pc[t] \in {"idle", "lock_shared_retry"}
    /\ cf_current_ctr' = [cf_current_ctr EXCEPT ![t] = m_shared_counter]
    /\ cf_pc' = [cf_pc EXCEPT ![t] = "lock_shared_inc"]
    /\ UNCHANGED <<m_shared_counter, m_exclusive_access, cf_expected, cf_may_lock,
                   cf_pd, cf_seen>>
    /\ UNCHANGED cf_late
    /\ UNCHANGED cfOthers

\* lock_shared(): one turn of
\*   while (!m_shared_counter.compare_exchange_weak(current_ctr, current_ctr + 1));
cf_lock_shared_inc(t) ==
    /\ cf_pc[t] = "lock_shared_inc"
    /\ IF m_shared_counter = cf_current_ctr[t]
       THEN /\ m_shared_counter' = cf_current_ctr[t] + 1
            /\ cf_pc' = [cf_pc EXCEPT ![t] = "lock_shared_check"]
            /\ UNCHANGED cf_current_ctr
       ELSE /\ cf_current_ctr' = [cf_current_ctr EXCEPT ![t] = m_shared_counter]
            /\ UNCHANGED <<m_shared_counter, cf_pc>>
    /\ UNCHANGED <<m_exclusive_access, cf_expected, cf_may_lock, cf_pd, cf_seen>>
    /\ cf_late' = IF m_shared_counter /= cf_current_ctr[t] THEN cf_late
                  ELSE IF m_exclusive_access /\ \E w \in CfThreads : cf_pc[w] = "lock_wait"
                       THEN cf_late \cup {t}
                       ELSE cf_late \ {t}
    /\ UNCHANGED cfOthers

\* lock_shared() without the back-out path: it returns whatever the flag says
cf_lock_shared_check_no_backout(t) ==
    /\ cf_pc[t] = "lock_shared_check"
    /\ cf_current_ctr' = [cf_current_ctr EXCEPT ![t] = 0]
    /\ cf_pc' = [cf_pc EXCEPT ![t] = "shared"]
    /\ UNCHANGED <<m_shared_counter, m_exclusive_access, cf_expected, cf_may_lock,
                   cf_pd, cf_seen>>
    /\ UNCHANGED cf_late
    /\ UNCHANGED cfOthers

\* lock_shared(): if (m_exclusive_access.load()) { current_ctr++; ... }
cf_lock_shared_check(t) ==
    /\ cf_pc[t] = "lock_shared_check"
    /\ IF m_exclusive_access
       THEN /\ cf_current_ctr' = [cf_current_ctr EXCEPT ![t] = @ + 1]
            /\ cf_pc' = [cf_pc EXCEPT ![t] = "lock_shared_backout"]
       ELSE /\ cf_current_ctr' = [cf_current_ctr EXCEPT ![t] = 0]
            /\ cf_pc' = [cf_pc EXCEPT ![t] = "shared"]
    /\ UNCHANGED <<m_shared_counter, m_exclusive_access, cf_expected, cf_may_lock,
                   cf_pd, cf_seen>>
    /\ UNCHANGED cf_late
    /\ UNCHANGED cfOthers

\* lock_shared(), back-out: one turn of
\*   while (!m_shared_counter.compare_exchange_weak(current_ctr, current_ctr - 1));
cf_lock_shared_backout(t) ==
    /\ cf_pc[t] = "lock_shared_backout"
    /\ IF m_shared_counter = cf_current_ctr[t]
       THEN /\ m_shared_counter' = cf_current_ctr[t] - 1
            /\ cf_pc' = [cf_pc EXCEPT ![t] = "lock_shared_spin"]
            /\ cf_current_ctr' = [cf_current_ctr EXCEPT ![t] = 0]
       ELSE /\ cf_current_ctr' = [cf_current_ctr EXCEPT ![t] = m_shared_counter]
            /\ UNCHANGED <<m_shared_counter, cf_pc>>
    /\ UNCHANGED <<m_exclusive_access, cf_expected, cf_may_lock, cf_pd, cf_seen>>
    /\ cf_late' = IF m_shared_counter = cf_current_ctr[t] THEN cf_late \ {t} ELSE cf_late
    /\ UNCHANGED cfOthers

\* lock_shared() without the recursive call: it returns once the flag is clear, its
\* increment backed out
cf_lock_shared_spin_no_retry(t) ==
    /\ cf_pc[t] = "lock_shared_spin"
    /\ cf_pc' = [cf_pc EXCEPT ![t] =
                    IF m_exclusive_access THEN "lock_shared_spin" ELSE "shared"]
    /\ UNCHANGED <<m_shared_counter, m_exclusive_access, cf_expected, cf_current_ctr,
                   cf_may_lock, cf_pd, cf_seen>>
    /\ UNCHANGED cf_late
    /\ UNCHANGED cfOthers

\* lock_shared() with the wait inverted: it waits while the flag is clear
cf_lock_shared_spin_inverted(t) ==
    /\ cf_pc[t] = "lock_shared_spin"
    /\ cf_pc' = [cf_pc EXCEPT ![t] =
                    IF m_exclusive_access THEN "lock_shared_retry" ELSE "lock_shared_spin"]
    /\ UNCHANGED <<m_shared_counter, m_exclusive_access, cf_expected, cf_current_ctr,
                   cf_may_lock, cf_pd, cf_seen>>
    /\ UNCHANGED cf_late
    /\ UNCHANGED cfOthers

\* lock_shared(), back-out: one turn of  while (m_exclusive_access.load());
cf_lock_shared_spin(t) ==
    /\ cf_pc[t] = "lock_shared_spin"
    /\ cf_pc' = [cf_pc EXCEPT ![t] =
                    IF m_exclusive_access THEN "lock_shared_spin" ELSE "lock_shared_retry"]
    /\ UNCHANGED <<m_shared_counter, m_exclusive_access, cf_expected, cf_current_ctr,
                   cf_may_lock, cf_pd, cf_seen>>
    /\ UNCHANGED cf_late
    /\ UNCHANGED cfOthers

\* the shared section: the reader reads both words of the protected data
cf_read(t) ==
    /\ cf_pc[t] = "shared"
    /\ cf_seen' = [cf_seen EXCEPT ![t] = cf_pd]
    /\ cf_pc' = [cf_pc EXCEPT ![t] = "shared_done"]
    /\ UNCHANGED <<m_shared_counter, m_exclusive_access, cf_expected, cf_current_ctr,
                   cf_may_lock, cf_pd>>
    /\ UNCHANGED cf_late
    /\ UNCHANGED cfOthers

\* unlock_shared(): int current_ctr = m_shared_counter.load();
cf_unlock_shared_load(t) ==
    /\ cf_pc[t] = "shared_done"
    /\ cf_current_ctr' = [cf_current_ctr EXCEPT ![t] = m_shared_counter]
    /\ cf_pc' = [cf_pc EXCEPT ![t] = "unlock_shared_cas"]
    /\ UNCHANGED <<m_shared_counter, m_exclusive_access, cf_expected, cf_may_lock,
                   cf_pd, cf_seen>>
    /\ UNCHANGED cf_late
    /\ UNCHANGED cfOthers

\* unlock_shared(): one turn of
\*   while (!m_shared_counter.compare_exchange_weak(current_ctr, current_ctr - 1));
cf_unlock_shared_cas(t) ==
    /\ cf_pc[t] = "unlock_shared_cas"
    /\ IF m_shared_counter = cf_current_ctr[t]
       THEN /\ m_shared_counter' = cf_current_ctr[t] - 1
            /\ cf_pc' = [cf_pc EXCEPT ![t] = "idle"]
            /\ cf_current_ctr' = [cf_current_ctr EXCEPT ![t] = 0]
            /\ cf_seen' = [cf_seen EXCEPT ![t] = <<0, 0>>]
       ELSE /\ cf_current_ctr' = [cf_current_ctr EXCEPT ![t] = m_shared_counter]
            /\ UNCHANGED <<m_shared_counter, cf_pc, cf_seen>>
    /\ UNCHANGED <<m_exclusive_access, cf_expected, cf_may_lock, cf_pd>>
    /\ cf_late' = IF m_shared_counter = cf_current_ctr[t] THEN cf_late \ {t} ELSE cf_late
    /\ UNCHANGED cfOthers

CfStep ==
    \E t \in CfThreads :
        \/ cf_lock_enter(t)
        \/ cf_lock_cas(t)
        \/ cf_lock_wait(t)
        \/ cf_write_first(t)
        \/ cf_write_second(t)
        \/ cf_unlock(t)
        \/ cf_lock_shared_enter(t)
        \/ cf_lock_shared_inc(t)
        \/ cf_lock_shared_check(t)
        \/ cf_lock_shared_backout(t)
        \/ cf_lock_shared_spin(t)
        \/ cf_read(t)
        \/ cf_unlock_shared_load(t)
        \/ cf_unlock_shared_cas(t)

\* lock() has returned and unlock() has not been called
CfInExclusive(t) == cf_pc[t] \in {"exclusive", "exclusive_half", "exclusive_done"}

\* lock_shared() has returned and unlock_shared() has not started
CfInShared(t) == cf_pc[t] \in {"shared", "shared_done"}

\* C6: counter+flag shared_mutex, mutual exclusion.  When a thread has returned from
\* lock() and has not called unlock(), no other thread has returned from lock() and no
\* thread is inside a shared section.
C6_CfMutualExclusion ==
    \A t \in CfThreads : CfInExclusive(t) =>
        \A u \in CfThreads \ {t} : ~CfInExclusive(u) /\ ~CfInShared(u)

\* the increment lock_shared() made on the thread's behalf is in place
CfCounted(t) ==
    cf_pc[t] \in {"lock_shared_check", "lock_shared_backout", "shared", "shared_done",
                  "unlock_shared_cas"}

\* the step by which lock() returns to thread t
CfGranted(t) == cf_pc[t] = "lock_wait" /\ cf_pc'[t] = "exclusive"

\* C31: counter+flag shared_mutex with one thread calling lock().  No thread is inside
\* a shared section while the writer is inside its exclusive section; a reader that
\* incremented the counter after the writer set the flag and before lock() returned
\* never enters a shared section on that increment, and when lock() returns no
\* increment is in place: the reader has backed its increment out before the writer
\* is granted.
C31_SingleWriterExclusion ==
    /\ [](\A t \in CfThreads : CfInExclusive(t) => \A u \in CfThreads : ~CfInShared(u))
    /\ [](\A u \in cf_late : cf_pc[u] \in {"lock_shared_check", "lock_shared_backout"})
    /\ [][\A t \in CfThreads : CfGranted(t) =>
              m_shared_counter = 0 /\ \A u \in CfThreads : ~CfCounted(u)]_vars

\* the writer waits for the counter to drain while a reader that incremented after the
\* flag was set is about to back out, and another reader is in its shared section
C31_Witness ==
    \E t, u, v \in CfThreads :
        /\ cf_pc[t] = "lock_wait"
        /\ u \in cf_late /\ cf_pc[u] = "lock_shared_backout"
        /\ CfInShared(v)

\* C32: the shared counter is never negative.  In every reachable state, whatever
\* threads call lock(), m_shared_counter is the number of threads whose increment is
\* in place, so it is at least 0, and no lock() has thrown "shared access counter has
\* gone below zero".
C32_CounterNonNegative ==
    /\ m_shared_counter >= 0
    /\ m_shared_counter = Cardinality({t \in CfThreads : CfCounted(t)})
    /\ \A t \in CfThreads : cf_pc[t] /= "logic_error"

\* a reader has backed its increment out and waits for the flag; the counter is back at
\* 0 while a lock() reads it
C32_Witness ==
    \E t, u \in CfThreads :
        /\ cf_pc[t] = "lock_wait" /\ cf_pc[u] = "lock_shared_spin"
        /\ m_shared_counter = 0

(***************************************************************************)
(* Lock-free stack and queue.                                              *)
(*                                                                         *)
(* A node is a number 1..MaxNodes, Null is the null pointer.  malloc hands *)
(* out the nodes in turn.  node_list::push and node_list::pop are one      *)
(* piece of code run on several objects: the local `this` names the list a *)
(* thread's call runs on.  node_pop_list::pop has the text of              *)
(* node_list::pop and is run by the same actions.                          *)
(*                                                                         *)
(* A compare_exchange_weak that fails spuriously reloads top with the      *)
(* value it holds and repeats the loop's body, which brings the thread to  *)
(* a state it has been in: it adds no reachable state.                     *)
(***************************************************************************)
Null == 0
Nodes == 1..MaxNodes
Vacant == 0
Values == 1..MaxValues

\* head(node * node) : pNode(node), seqNum(0)
head(n, s) == [pNode |-> n, seqNum |-> s]

\* unsigned int seqNum: 32 bits.  The model keeps an unsigned int as the integer
\* that has the same 32 bits in two's complement, so 0 .. 2^31-1 are themselves and
\* 2^31 .. 2^32-1 are -2^31 .. -1 (UINT_MAX is -1).
\* seqNum + 1
NextSeqNum(s) == IF s = 2147483647 THEN (0 - 2147483647) - 1 ELSE s + 1

\* a < b as unsigned ints
SeqNumBelow(a, b) == IF (a < 0) = (b < 0) THEN a < b ELSE b < 0

\* the locals of a thread that is in no call
IdleLocal ==
    [pc |-> "idle", this |-> "", attempt |-> 0, top |-> head(Null, 0),
     newtop |-> head(Null, 0), pNode |-> Null, fresh |-> Null, refillList |-> Null,
     arg |-> Vacant, ret |-> Vacant, pushedBefore |-> {}]

\* stack(initial_capacity) / queue(initial_capacity): free_list's constructor has
\* pushed initial_capacity nodes from malloc onto m_freeList, each push adding 1 to
\* the sequence number; the other lists are empty
CtBuilt ==
    /\ m_top = [l \in {"m_freeList", "m_occupiedList", "m_popList"} |->
                  IF l = "m_freeList" THEN head(InitialCapacity, InitialCapacity)
                  ELSE head(Null, 0)]
    /\ m_pushList = Null
    /\ m_refillLock = FALSE
    /\ pPrevious = [n \in Nodes |-> IF n <= InitialCapacity THEN n - 1 ELSE Null]
    /\ item = [n \in Nodes |-> Vacant]
    /\ allocated = InitialCapacity
    /\ local = [t \in CtThreads |-> IdleLocal]
    /\ nextValue = 1
    /\ pushed = {}
    /\ popCount = [v \in Values \cup {Vacant} |-> 0]
    /\ raced = FALSE
    /\ maxLive = 0

\* tasks are about to run
CtInit == CtBuilt /\ phase = "run"

\* the nodes of the chain that starts at n, following pPrevious
RECURSIVE Chain(_, _)
Chain(prev, n) == IF n = Null THEN <<>> ELSE <<n>> \o Chain(prev, prev[n])

\* the sum of f[1], ..., f[n]
RECURSIVE SumTo(_, _)
SumTo(f, n) == IF n = 0 THEN 0 ELSE f[n] + SumTo(f, n - 1)

\* the calls of pop that have returned true
Returned == popCount[Vacant] + SumTo(popCount, MaxValues)

\* a task of the test is started on thread t: the free thread of the lowest number
\* (threads that are in no call are alike)
TaskStarts(t) ==
    /\ phase = "run"
    /\ t \in active
    /\ opsLeft > 0
    /\ \A u \in active : u < t => local[u].pc /= "idle"

\* a task of the test calls push(item); the values pushed are 1, 2, ... in the order
\* the calls begin
ct_push_enter(t) ==
    /\ TaskStarts(t)
    /\ local[t].pc = "idle"
    /\ nextValue \in Values
    /\ opsLeft' = opsLeft - 1
    /\ nextValue' = nextValue + 1
    /\ local' = [local EXCEPT ![t] = [@ EXCEPT !.pc = "nl_pop_load",
                                               !.this = "m_freeList",
                                               !.arg = nextValue]]
    /\ maxLive' = IF nextValue - Returned > maxLive THEN nextValue - Returned
                  ELSE maxLive
    /\ UNCHANGED <<sut, active, m_top, m_pushList, m_refillLock, pPrevious, item,
                   allocated, pushed, popCount, phase, raced>>
    /\ precededBy' = IF DOMAIN precededBy = {} THEN precededBy
                     ELSE [precededBy EXCEPT ![nextValue] = pushed]
    /\ UNCHANGED <<scVars, cfVars, liVars, hbVars, stalled, lfVars, sgVars, sc_unpaired>>

\* a task of the test calls pop(item); after the tasks, the main thread pops until
\* pop returns false
ct_pop_enter(t) ==
    /\ local[t].pc = "idle"
    /\ IF phase = "run"
       THEN TaskStarts(t) /\ opsLeft' = opsLeft - 1
       ELSE phase = "drain" /\ t = 1 /\ UNCHANGED opsLeft
    /\ local' = [local EXCEPT ![t] = [@ EXCEPT
                    !.pc = "nl_pop_load",
                    !.this = IF sut = "stack" THEN "m_occupiedList" ELSE "m_popList",
                    !.attempt = IF sut = "stack" THEN 0 ELSE 1,
                    !.pushedBefore = pushed]]
    /\ UNCHANGED <<sut, active, m_top, m_pushList, m_refillLock, pPrevious, item,
                   allocated, nextValue, pushed, popCount, phase, raced, maxLive>>
    /\ UNCHANGED ctOthers

\* where a thread goes when node_list::pop returns r to its caller:
\* free_list::pop (malloc when null, else push's node), stack::pop, or queue::pop
\* (its first call, or its second call made with the refill lock held)
AfterListPop(l, r) ==
    CASE l.this = "m_freeList" ->
            IF r = Null THEN [l EXCEPT !.pc = "fl_malloc"]
            ELSE [l EXCEPT !.pc = "construct", !.pNode = r, !.this = ""]
      [] l.this = "m_occupiedList" ->
            IF r = Null THEN [l EXCEPT !.pc = "pop_return", !.this = ""]
            ELSE [l EXCEPT !.pc = "copy", !.pNode = r, !.this = ""]
      [] l.this = "m_popList" /\ l.attempt = 1 ->
            IF r = Null THEN [l EXCEPT !.pc = "q_lock", !.this = ""]
            ELSE [l EXCEPT !.pc = "copy", !.pNode = r, !.this = ""]
      [] l.this = "m_popList" /\ l.attempt = 2 ->
            IF r = Null THEN [l EXCEPT !.pc = "q_move", !.this = ""]
            ELSE [l EXCEPT !.pc = "q_unlock", !.pNode = r, !.this = ""]

\* a thread's locals with top and newtop dead
Forget(l) == [l EXCEPT !.top = head(Null, 0), !.newtop = head(Null, 0)]

\* node_list::pop: auto top = m_top.load();  an empty list returns null at once
nl_pop_load(t) ==
    /\ local[t].pc = "nl_pop_load"
    /\ LET top == m_top[local[t].this]
       IN  local' = [local EXCEPT ![t] =
                IF top.pNode = Null THEN AfterListPop(Forget(@), Null)
                ELSE [@ EXCEPT !.pc = "nl_pop_read", !.top = top]]
    /\ UNCHANGED <<sut, active, opsLeft, m_top, m_pushList, m_refillLock, pPrevious,
                   item, allocated, nextValue, pushed, popCount, phase, raced, maxLive>>
    /\ UNCHANGED ctOthers

\* node_list::pop: newtop.pNode = top.pNode->pPrevious; newtop.seqNum = top.seqNum;
nl_pop_read(t) ==
    /\ local[t].pc = "nl_pop_read"
    /\ local' = [local EXCEPT ![t] = [@ EXCEPT
                    !.pc = "nl_pop_cas",
                    !.newtop = head(pPrevious[local[t].top.pNode], local[t].top.seqNum)]]
    /\ UNCHANGED <<sut, active, opsLeft, m_top, m_pushList, m_refillLock, pPrevious,
                   item, allocated, nextValue, pushed, popCount, phase, raced, maxLive>>
    /\ UNCHANGED ctOthers

\* a compare-exchange on the stack's m_occupiedList that finds the head changed
Contended(l) == l.this = "m_occupiedList" /\ m_top[l.this] /= l.top

\* node_list::pop with a store in place of the compare-exchange
nl_pop_store(t) ==
    /\ local[t].pc = "nl_pop_cas"
    /\ m_top' = [m_top EXCEPT ![local[t].this] = local[t].newtop]
    /\ local' = [local EXCEPT ![t] = AfterListPop(Forget(@), local[t].top.pNode)]
    /\ UNCHANGED <<sut, active, opsLeft, m_pushList, m_refillLock, pPrevious,
                   item, allocated, nextValue, pushed, popCount, phase, raced, maxLive>>
    /\ UNCHANGED ctOthers

\* node_list::pop: m_top.compare_exchange_weak(top, newtop); return top.pNode on
\* success, on failure go round the loop with top reloaded
nl_pop_cas(t) ==
    /\ local[t].pc = "nl_pop_cas"
    /\ LET l == local[t]
           now == m_top[l.this]
       IN  IF now = l.top
           THEN /\ m_top' = [m_top EXCEPT ![l.this] = l.newtop]
                /\ local' = [local EXCEPT ![t] = AfterListPop(Forget(l), l.top.pNode)]
           ELSE /\ local' = [local EXCEPT ![t] =
                        IF now.pNode = Null THEN AfterListPop(Forget(l), Null)
                        ELSE [l EXCEPT !.pc = "nl_pop_read", !.top = now,
                                       !.newtop = head(Null, 0)]]
                /\ UNCHANGED m_top
    /\ raced' = (raced \/ Contended(local[t]))
    /\ UNCHANGED <<sut, active, opsLeft, m_pushList, m_refillLock, pPrevious,
                   item, allocated, nextValue, pushed, popCount, phase, maxLive>>
    /\ UNCHANGED ctOthers

\* free_list::pop that returns the node from malloc to push and also puts it on
\* the free list
fl_malloc_keep(t) ==
    /\ local[t].pc = "fl_malloc"
    /\ allocated < MaxNodes
    /\ allocated' = allocated + 1
    /\ m_top' = [m_top EXCEPT !["m_freeList"] = head(allocated + 1, NextSeqNum(@.seqNum))]
    /\ pPrevious' = [pPrevious EXCEPT ![allocated + 1] = m_top["m_freeList"].pNode]
    /\ local' = [local EXCEPT ![t] = [@ EXCEPT !.pc = "construct", !.this = "",
                                               !.pNode = allocated + 1]]
    /\ UNCHANGED <<sut, active, opsLeft, m_pushList, m_refillLock,
                   item, nextValue, pushed, popCount, phase, raced, maxLive>>
    /\ UNCHANGED ctOthers

\* free_list::pop: node_list::push(static_cast<node *>(malloc(sizeof(node))));
fl_malloc(t) ==
    /\ local[t].pc = "fl_malloc"
    /\ allocated < MaxNodes
    /\ allocated' = allocated + 1
    /\ local' = [local EXCEPT ![t] = [@ EXCEPT !.pc = "nl_push_load",
                                               !.fresh = allocated + 1]]
    /\ UNCHANGED <<sut, active, opsLeft, m_top, m_pushList, m_refillLock, pPrevious,
                   item, nextValue, pushed, popCount, phase, raced, maxLive>>
    /\ UNCHANGED ctOthers

\* free_list::pop when malloc fails: node_list::push(static_cast<node *>(nullptr))
\* (the result of malloc is not tested)
fl_malloc_null(t) ==
    /\ local[t].pc = "fl_malloc"
    /\ local' = [local EXCEPT ![t] = [@ EXCEPT !.pc = "nl_push_load", !.fresh = Null]]
    /\ UNCHANGED <<sut, active, opsLeft, m_top, m_pushList, m_refillLock, pPrevious,
                   item, allocated, nextValue, pushed, popCount, phase, raced, maxLive>>
    /\ UNCHANGED ctOthers

\* the argument pNode of node_list::push: free_list::pop passes the node from malloc,
\* stack::push the node it constructed the item in
PushedNode(l) == IF l.this = "m_freeList" THEN l.fresh ELSE l.pNode

\* node_list::push: auto top = m_top.load();
nl_push_load(t) ==
    /\ local[t].pc = "nl_push_load"
    /\ local' = [local EXCEPT ![t] = [@ EXCEPT !.pc = "nl_push_link",
                                               !.top = m_top[local[t].this]]]
    /\ UNCHANGED <<sut, active, opsLeft, m_top, m_pushList, m_refillLock, pPrevious,
                   item, allocated, nextValue, pushed, popCount, phase, raced, maxLive>>
    /\ UNCHANGED ctOthers

\* node_list::push that leaves the node it pushes without a link to the old head
nl_push_link_unlinked(t) ==
    /\ local[t].pc = "nl_push_link"
    /\ pPrevious' = [pPrevious EXCEPT ![PushedNode(local[t])] = Null]
    /\ local' = [local EXCEPT ![t] = [@ EXCEPT
                    !.pc = "nl_push_cas",
                    !.newtop = head(PushedNode(local[t]), NextSeqNum(local[t].top.seqNum))]]
    /\ UNCHANGED <<sut, active, opsLeft, m_top, m_pushList, m_refillLock,
                   item, allocated, nextValue, pushed, popCount, phase, raced, maxLive>>
    /\ UNCHANGED ctOthers

\* node_list::push: pNode->pPrevious = top.pNode; newtop.seqNum = top.seqNum + 1;
\* With pNode null the write goes through the null pointer: the behaviour is
\* undefined, and what a build does is end the process at the write (pPrevious is
\* the first member of node, the address written is 0).
nl_push_link(t) ==
    /\ local[t].pc = "nl_push_link"
    /\ IF PushedNode(local[t]) = Null
       THEN /\ local' = [local EXCEPT ![t] = [@ EXCEPT !.pc = "null_deref"]]
            /\ UNCHANGED pPrevious
       ELSE /\ pPrevious' = [pPrevious EXCEPT ![PushedNode(local[t])] =
                                local[t].top.pNode]
            /\ local' = [local EXCEPT ![t] = [@ EXCEPT
                    !.pc = "nl_push_cas",
                    !.newtop = head(PushedNode(local[t]), NextSeqNum(local[t].top.seqNum))]]
    /\ UNCHANGED <<sut, active, opsLeft, m_top, m_pushList, m_refillLock,
                   item, allocated, nextValue, pushed, popCount, phase, raced, maxLive>>
    /\ UNCHANGED ctOthers

\* nl_push_cas with a compare-exchange that leaves the expected value as it was when
\* it fails
nl_push_cas_keep_expected(t) ==
    /\ local[t].pc = "nl_push_cas"
    /\ LET l == local[t]
           now == m_top[l.this]
       IN  IF now = l.top
           THEN /\ m_top' = [m_top EXCEPT ![l.this] = l.newtop]
                /\ IF l.this = "m_freeList"
                   THEN /\ local' = [local EXCEPT ![t] =
                                [Forget(l) EXCEPT !.pc = "nl_pop_load", !.fresh = Null]]
                        /\ UNCHANGED pushed
                   ELSE /\ local' = [local EXCEPT ![t] = IdleLocal]
                        /\ pushed' = pushed \cup {l.arg}
           ELSE /\ local' = [local EXCEPT ![t] =
                        [l EXCEPT !.pc = "nl_push_link",
                                  !.newtop = head(Null, 0)]]
                /\ UNCHANGED <<m_top, pushed>>
    /\ raced' = (raced \/ Contended(local[t]))
    /\ UNCHANGED <<sut, active, opsLeft, m_pushList, m_refillLock, pPrevious,
                   item, allocated, nextValue, popCount, phase, maxLive>>
    /\ UNCHANGED ctOthers

\* node_list::push: m_top.compare_exchange_weak(top, newtop).  On success
\* free_list::pop goes round its loop, and stack::push returns.
nl_push_cas(t) ==
    /\ local[t].pc = "nl_push_cas"
    /\ LET l == local[t]
           now == m_top[l.this]
       IN  IF now = l.top
           THEN /\ m_top' = [m_top EXCEPT ![l.this] = l.newtop]
                /\ IF l.this = "m_freeList"
                   THEN /\ local' = [local EXCEPT ![t] =
                                [Forget(l) EXCEPT !.pc = "nl_pop_load", !.fresh = Null]]
                        /\ UNCHANGED pushed
                   ELSE /\ local' = [local EXCEPT ![t] = IdleLocal]
                        /\ pushed' = pushed \cup {l.arg}
           ELSE /\ local' = [local EXCEPT ![t] =
                        [l EXCEPT !.pc = "nl_push_link", !.top = now,
                                  !.newtop = head(Null, 0)]]
                /\ UNCHANGED <<m_top, pushed>>
    /\ raced' = (raced \/ Contended(local[t]))
    /\ UNCHANGED <<sut, active, opsLeft, m_pushList, m_refillLock, pPrevious,
                   item, allocated, nextValue, popCount, phase, maxLive>>
    /\ UNCHANGED ctOthers

\* push: new (&(pNode->item)) T(item);  then m_occupiedList.push(pNode) in the stack,
\* m_pushList.push(pNode) in the queue
construct(t) ==
    /\ local[t].pc = "construct"
    /\ item' = [item EXCEPT ![local[t].pNode] = local[t].arg]
    /\ local' = [local EXCEPT ![t] =
                    IF sut = "stack"
                    THEN [@ EXCEPT !.pc = "nl_push_load", !.this = "m_occupiedList"]
                    ELSE [@ EXCEPT !.pc = "pl_push_load"]]
    /\ UNCHANGED <<sut, active, opsLeft, m_top, m_pushList, m_refillLock, pPrevious,
                   allocated, nextValue, pushed, popCount, phase, raced, maxLive>>
    /\ UNCHANGED ctOthers

\* pop that copies the item to its caller and does not destruct it
copy_no_destruct(t) ==
    /\ local[t].pc = "copy"
    /\ local' = [local EXCEPT ![t] = [@ EXCEPT !.pc = "pop_return",
                                               !.ret = item[local[t].pNode]]]
    /\ UNCHANGED <<sut, active, opsLeft, m_top, m_pushList, m_refillLock, pPrevious,
                   item, allocated, nextValue, pushed, popCount, phase, raced, maxLive>>
    /\ UNCHANGED ctOthers

\* pop: item = pNode->item; pNode->item.~T();
copy(t) ==
    /\ local[t].pc = "copy"
    /\ item' = [item EXCEPT ![local[t].pNode] = Vacant]
    /\ local' = [local EXCEPT ![t] = [@ EXCEPT !.pc = "pop_return",
                                               !.ret = item[local[t].pNode]]]
    /\ UNCHANGED <<sut, active, opsLeft, m_top, m_pushList, m_refillLock, pPrevious,
                   allocated, nextValue, pushed, popCount, phase, raced, maxLive>>
    /\ UNCHANGED ctOthers

\* pop: return true; or return false;  The node pNode is dropped: nothing hands it to
\* m_freeList.  The main thread's pops end with the first that returns false.
ct_pop_return(t) ==
    /\ local[t].pc = "pop_return"
    /\ popCount' = IF local[t].pNode /= Null
                   THEN [popCount EXCEPT ![local[t].ret] = @ + 1]
                   ELSE popCount
    /\ phase' = IF phase = "drain" /\ local[t].pNode = Null THEN "done" ELSE phase
    /\ local' = [local EXCEPT ![t] = IdleLocal]
    /\ UNCHANGED <<sut, active, opsLeft, m_top, m_pushList, m_refillLock, pPrevious,
                   item, allocated, nextValue, pushed, raced, maxLive>>
    /\ UNCHANGED ctOthers

\* the tasks of the test have all returned: the main thread starts popping
ct_drain(t) ==
    /\ phase = "run"
    /\ t = 1
    /\ \A u \in CtThreads : local[u].pc = "idle"
    /\ phase' = "drain"
    /\ UNCHANGED <<sut, active, opsLeft, m_top, m_pushList, m_refillLock, pPrevious,
                   item, allocated, local, nextValue, pushed, popCount, raced,
                   maxLive>>
    /\ UNCHANGED ctOthers

\* node_push_list::push: auto top = m_top.load();
pl_push_load(t) ==
    /\ local[t].pc = "pl_push_load"
    /\ local' = [local EXCEPT ![t] = [@ EXCEPT !.pc = "pl_push_link",
                                               !.top = head(m_pushList, 0)]]
    /\ UNCHANGED <<sut, active, opsLeft, m_top, m_pushList, m_refillLock, pPrevious,
                   item, allocated, nextValue, pushed, popCount, phase, raced, maxLive>>
    /\ UNCHANGED ctOthers

\* node_push_list::push: newtop->pPrevious = top;
pl_push_link(t) ==
    /\ local[t].pc = "pl_push_link"
    /\ pPrevious' = [pPrevious EXCEPT ![local[t].pNode] = local[t].top.pNode]
    /\ local' = [local EXCEPT ![t] = [@ EXCEPT !.pc = "pl_push_cas"]]
    /\ UNCHANGED <<sut, active, opsLeft, m_top, m_pushList, m_refillLock,
                   item, allocated, nextValue, pushed, popCount, phase, raced, maxLive>>
    /\ UNCHANGED ctOthers

\* node_push_list::push: m_top.compare_exchange_weak(top, newtop); queue::push returns
\* on success
pl_push_cas(t) ==
    /\ local[t].pc = "pl_push_cas"
    /\ IF m_pushList = local[t].top.pNode
       THEN /\ m_pushList' = local[t].pNode
            /\ pushed' = pushed \cup {local[t].arg}
            /\ local' = [local EXCEPT ![t] = IdleLocal]
       ELSE /\ local' = [local EXCEPT ![t] = [@ EXCEPT !.pc = "pl_push_link",
                                                       !.top = head(m_pushList, 0)]]
            /\ UNCHANGED <<m_pushList, pushed>>
    /\ UNCHANGED <<sut, active, opsLeft, m_top, m_refillLock, pPrevious,
                   item, allocated, nextValue, popCount, phase, raced, maxLive>>
    /\ UNCHANGED ctOthers

\* queue::pop that sets the refill lock without waiting for it to be clear
q_lock_unguarded(t) ==
    /\ local[t].pc = "q_lock"
    /\ m_refillLock' = TRUE
    /\ local' = [local EXCEPT ![t] = [@ EXCEPT !.pc = "nl_pop_load",
                                               !.this = "m_popList",
                                               !.attempt = 2]]
    /\ UNCHANGED <<sut, active, opsLeft, m_top, m_pushList, pPrevious,
                   item, allocated, nextValue, pushed, popCount, phase, raced, maxLive>>
    /\ UNCHANGED ctOthers

\* queue::pop: one turn of  while (m_refillLock.test_and_set());  then the second
\* m_popList.pop()
q_lock(t) ==
    /\ local[t].pc = "q_lock"
    /\ IF m_refillLock
       THEN UNCHANGED <<m_refillLock, local>>
       ELSE /\ m_refillLock' = TRUE
            /\ local' = [local EXCEPT ![t] = [@ EXCEPT !.pc = "nl_pop_load",
                                                       !.this = "m_popList",
                                                       !.attempt = 2]]
    /\ UNCHANGED <<sut, active, opsLeft, m_top, m_pushList, pPrevious,
                   item, allocated, nextValue, pushed, popCount, phase, raced, maxLive>>
    /\ UNCHANGED ctOthers

\* queue::pop with a move() that loads the push list's head and leaves it in place
q_move_load(t) ==
    /\ local[t].pc = "q_move"
    /\ local' = [local EXCEPT ![t] = [@ EXCEPT
                    !.pc = IF m_pushList = Null THEN "q_unlock" ELSE "q_reverse",
                    !.pNode = m_pushList]]
    /\ UNCHANGED <<sut, active, opsLeft, m_top, m_pushList, m_refillLock, pPrevious,
                   item, allocated, nextValue, pushed, popCount, phase, raced, maxLive>>
    /\ UNCHANGED ctOthers

\* queue::pop: if (pNode = m_pushList.move())  with  move: m_top.exchange(nullptr)
q_move(t) ==
    /\ local[t].pc = "q_move"
    /\ m_pushList' = Null
    /\ local' = [local EXCEPT ![t] = [@ EXCEPT
                    !.pc = IF m_pushList = Null THEN "q_unlock" ELSE "q_reverse",
                    !.pNode = m_pushList]]
    /\ UNCHANGED <<sut, active, opsLeft, m_top, m_refillLock, pPrevious,
                   item, allocated, nextValue, pushed, popCount, phase, raced, maxLive>>
    /\ UNCHANGED ctOthers

\* reverseList with the loop  while (current->pPrevious): it stops before it has
\* relinked the last node
RECURSIVE ReverseLoop_stop_early(_, _, _)
ReverseLoop_stop_early(prev, next, current) ==
    LET previous == prev[current]
    IN  IF previous = Null
        THEN [pPrevious |-> prev, head |-> IF next = Null THEN current ELSE next]
        ELSE ReverseLoop_stop_early([prev EXCEPT ![current] = next], current, previous)

\* reverseList's loop, from the state (next, current) it is in before a turn of the
\* do-while: the links after the loop and the node returned
RECURSIVE ReverseLoop(_, _, _)
ReverseLoop(prev, next, current) ==
    LET previous == prev[current]
        linked == [prev EXCEPT ![current] = next]
    IN  IF previous = Null
        THEN [pPrevious |-> linked, head |-> current]
        ELSE ReverseLoop(linked, current, previous)

\* node * reverseList(node * pNode)
reverseList(prev, pNode) == ReverseLoop(prev, Null, pNode)

\* queue::pop that takes the detached list as it is, newest node first
q_no_reverse(t) ==
    /\ local[t].pc = "q_reverse"
    /\ LET refillList == pPrevious[local[t].pNode]
       IN  local' = [local EXCEPT ![t] = [@ EXCEPT
                        !.pc = IF refillList = Null THEN "q_unlock" ELSE "q_refill_load",
                        !.refillList = refillList]]
    /\ UNCHANGED <<sut, active, opsLeft, m_top, m_pushList, m_refillLock, pPrevious,
                   item, allocated, nextValue, pushed, popCount, phase, raced, maxLive>>
    /\ UNCHANGED ctOthers

\* queue::pop that hands refill the reversed list from its first node:
\* auto refillList = pNode;
q_reverse_refill_from_head(t) ==
    /\ local[t].pc = "q_reverse"
    /\ LET r == reverseList(pPrevious, local[t].pNode)
           refillList == r.head
       IN  /\ pPrevious' = r.pPrevious
           /\ local' = [local EXCEPT ![t] = [@ EXCEPT
                            !.pc = IF refillList = Null THEN "q_unlock"
                                   ELSE "q_refill_load",
                            !.pNode = r.head,
                            !.refillList = refillList]]
    /\ UNCHANGED <<sut, active, opsLeft, m_top, m_pushList, m_refillLock,
                   item, allocated, nextValue, pushed, popCount, phase, raced, maxLive>>
    /\ UNCHANGED ctOthers

\* queue::pop: pNode = reverseList(pNode); auto refillList = pNode->pPrevious;
\* The nodes reversed are the ones move() detached: no other thread reads or writes
\* their links until refill publishes them.
q_reverse(t) ==
    /\ local[t].pc = "q_reverse"
    /\ LET r == reverseList(pPrevious, local[t].pNode)
           refillList == r.pPrevious[r.head]
       IN  /\ pPrevious' = r.pPrevious
           /\ local' = [local EXCEPT ![t] = [@ EXCEPT
                            !.pc = IF refillList = Null THEN "q_unlock"
                                   ELSE "q_refill_load",
                            !.pNode = r.head,
                            !.refillList = refillList]]
    /\ UNCHANGED <<sut, active, opsLeft, m_top, m_pushList, m_refillLock,
                   item, allocated, nextValue, pushed, popCount, phase, raced, maxLive>>
    /\ UNCHANGED ctOthers

\* node_pop_list::refill handed the whole reversed list, the node that queue::pop
\* returns included
q_refill_load_whole(t) ==
    /\ local[t].pc = "q_refill_load"
    /\ LET top == m_top["m_popList"]
       IN  local' = [local EXCEPT ![t] =
                IF top.pNode /= Null THEN [@ EXCEPT !.pc = "logic_error"]
                ELSE [@ EXCEPT !.pc = "q_refill_cas", !.top = top,
                               !.newtop = head(local[t].pNode, NextSeqNum(top.seqNum))]]
    /\ UNCHANGED <<sut, active, opsLeft, m_top, m_pushList, m_refillLock, pPrevious,
                   item, allocated, nextValue, pushed, popCount, phase, raced, maxLive>>
    /\ UNCHANGED ctOthers

\* node_pop_list::refill: auto top = m_top.load(); if (top.pNode) throw logic_error
q_refill_load(t) ==
    /\ local[t].pc = "q_refill_load"
    /\ LET top == m_top["m_popList"]
       IN  local' = [local EXCEPT ![t] =
                IF top.pNode /= Null THEN [@ EXCEPT !.pc = "logic_error"]
                ELSE [@ EXCEPT !.pc = "q_refill_cas", !.top = top,
                               !.newtop = head(local[t].refillList, NextSeqNum(top.seqNum))]]
    /\ UNCHANGED <<sut, active, opsLeft, m_top, m_pushList, m_refillLock, pPrevious,
                   item, allocated, nextValue, pushed, popCount, phase, raced, maxLive>>
    /\ UNCHANGED ctOthers

\* a call of queue::pop that is in its first m_popList.pop() or waits for the
\* refill lock
FirstAttempt(l) ==
    \/ l.pc = "q_lock"
    \/ l.this = "m_popList" /\ l.attempt = 1

\* node_pop_list::refill: if (!m_top.compare_exchange_strong(top, newtop)) throw
q_refill_cas(t) ==
    /\ local[t].pc = "q_refill_cas"
    /\ IF m_top["m_popList"] = local[t].top
       THEN /\ m_top' = [m_top EXCEPT !["m_popList"] = local[t].newtop]
            /\ local' = [local EXCEPT ![t] = [Forget(@) EXCEPT !.pc = "q_unlock",
                                                               !.refillList = Null]]
       ELSE /\ local' = [local EXCEPT ![t] = [@ EXCEPT !.pc = "logic_error"]]
            /\ UNCHANGED m_top
    /\ raced' = (raced \/ \E u \in CtThreads \ {t} : FirstAttempt(local[u]))
    /\ UNCHANGED <<sut, active, opsLeft, m_pushList, m_refillLock, pPrevious,
                   item, allocated, nextValue, pushed, popCount, phase, maxLive>>
    /\ UNCHANGED ctOthers

\* queue::pop that clears the refill lock only when it has a node to return
q_unlock_if_node(t) ==
    /\ local[t].pc = "q_unlock"
    /\ m_refillLock' = (local[t].pNode = Null)
    /\ local' = [local EXCEPT ![t] = [@ EXCEPT
                    !.pc = IF local[t].pNode = Null THEN "pop_return" ELSE "copy",
                    !.attempt = 0]]
    /\ UNCHANGED <<sut, active, opsLeft, m_top, m_pushList, pPrevious,
                   item, allocated, nextValue, pushed, popCount, phase, raced, maxLive>>
    /\ UNCHANGED ctOthers

\* queue::pop: m_refillLock.clear();  then  if (pNode) ... else return false
q_unlock(t) ==
    /\ local[t].pc = "q_unlock"
    /\ m_refillLock' = FALSE
    /\ local' = [local EXCEPT ![t] = [@ EXCEPT
                    !.pc = IF local[t].pNode = Null THEN "pop_return" ELSE "copy",
                    !.attempt = 0]]
    /\ UNCHANGED <<sut, active, opsLeft, m_top, m_pushList, pPrevious,
                   item, allocated, nextValue, pushed, popCount, phase, raced, maxLive>>
    /\ UNCHANGED ctOthers

\* the steps of the code that the stack and the queue share
SharedStep(t) ==
    \/ ct_push_enter(t)
    \/ ct_pop_enter(t)
    \/ nl_pop_load(t)
    \/ nl_pop_read(t)
    \/ nl_pop_cas(t)
    \/ fl_malloc(t)
    \/ nl_push_load(t)
    \/ nl_push_link(t)
    \/ nl_push_cas(t)
    \/ construct(t)
    \/ copy(t)
    \/ ct_pop_return(t)
    \/ ct_drain(t)

\* the steps of the queue alone
QueueStep(t) ==
    \/ pl_push_load(t)
    \/ pl_push_link(t)
    \/ pl_push_cas(t)
    \/ q_lock(t)
    \/ q_move(t)
    \/ q_reverse(t)
    \/ q_refill_load(t)
    \/ q_refill_cas(t)
    \/ q_unlock(t)

(***************************************************************************)
(* Properties of the stack and the queue.                                  *)
(***************************************************************************)
\* the values pushed that no call of pop has returned
Live == {v \in pushed : popCount[v] = 0}

\* every value pushed has been returned by one call of pop, and nothing else has
Conserved ==
    \A v \in Values \cup {Vacant} : popCount[v] = IF v \in pushed THEN 1 ELSE 0

\* no value has been returned by two calls of pop, and no call of pop has returned
\* true with the content of a destructed item
NoneTwice == \A v \in Values \cup {Vacant} : popCount[v] <= IF v \in Values THEN 1 ELSE 0

\* C2: queue conservation.  While threads push and pop one queue concurrently no value
\* is returned twice, and when the tasks have returned and the main thread has popped
\* until pop returned false, every value pushed has been returned by exactly one pop
\* and no other value has been returned.
C2_QueueConservation ==
    sut = "queue" => NoneTwice /\ (phase = "done" => Conserved)

\* a queue drained after a run in which two values were pushed and a refill published
\* nodes while another thread's pop was under way
C2_Witness ==
    /\ sut = "queue" /\ phase = "done" /\ raced
    /\ Cardinality(pushed) >= 2
    /\ Conserved

\* C3: stack conservation.  While threads push and pop one stack concurrently no value
\* is returned twice, and when the tasks have returned and the main thread has popped
\* until pop returned false, every value pushed has been returned by exactly one pop
\* and no other value has been returned.
C3_StackConservation ==
    sut = "stack" => NoneTwice /\ (phase = "done" => Conserved)

\* a stack drained after a run in which two values were pushed and a compare-exchange
\* on m_occupiedList failed because another thread had changed the head
C3_Witness ==
    /\ sut = "stack" /\ phase = "done" /\ raced
    /\ Cardinality(pushed) >= 2
    /\ \A v \in pushed : popCount[v] = 1

\* the least and the greatest of a set of values that is not empty
Oldest(S) == CHOOSE v \in S : \A w \in S : v <= w
Newest(S) == CHOOSE v \in S : \A w \in S : v >= w

\* C4: queue FIFO for one thread.  When one thread pushes 1, 2, ... and pops in any
\* order of calls, a pop returns false when no value is pushed and not popped, and
\* else returns true with the oldest such value.
C4_QueueFifo ==
    sut = "queue" =>
        \A t \in CtThreads : local[t].pc = "pop_return" =>
            IF Live = {} THEN local[t].pNode = Null
            ELSE local[t].pNode /= Null /\ local[t].ret = Oldest(Live)

\* a pop of the queue that returns the older of two values after the second refill
C4_Witness ==
    /\ sut = "queue" /\ active = {1}
    /\ local[1].pc = "pop_return" /\ local[1].pNode /= Null
    /\ m_top["m_popList"].seqNum >= 2
    /\ Cardinality(Live) >= 2 /\ local[1].ret = Oldest(Live)

\* C5: stack LIFO for one thread.  When one thread pushes 1, 2, ... and pops in any
\* order of calls, a pop returns false when no value is pushed and not popped, and
\* else returns true with the newest such value.
C5_StackLifo ==
    sut = "stack" =>
        \A t \in CtThreads : local[t].pc = "pop_return" =>
            IF Live = {} THEN local[t].pNode = Null
            ELSE local[t].pNode /= Null /\ local[t].ret = Newest(Live)

\* a pop of the stack that returns the newer of two values after a value pushed
\* later than both has been popped
C5_Witness ==
    /\ sut = "stack" /\ active = {1}
    /\ local[1].pc = "pop_return" /\ local[1].pNode /= Null
    /\ Cardinality(Live) >= 2 /\ local[1].ret = Newest(Live)
    /\ \E v \in Values : v > local[1].ret /\ popCount[v] = 1

\* a thread's call of stack::pop or queue::pop is under way
InPop(l) ==
    \/ l.pc \in {"q_lock", "q_move", "q_reverse", "q_refill_load", "q_refill_cas",
                 "q_unlock", "copy", "pop_return"}
    \/ l.pc \in {"nl_pop_load", "nl_pop_read", "nl_pop_cas"} /\ l.this /= "m_freeList"

\* thread t is in a call of pop on a stack or queue that holds no value, and no
\* other thread is in a call
PopOnEmpty(t) ==
    /\ InPop(local[t])
    /\ Live = {}
    /\ \A u \in CtThreads \ {t} : local[u].pc = "idle"

\* C8: pop on empty is harmless and repeatable.  A step of a pop on an empty stack or
\* queue changes no list head, no link, no item and allocates nothing; the pop returns
\* false with the refill lock clear; and whatever calls went before (failed pops
\* among them), a pop made when x is the one value pushed and not popped returns x.
C8_PopOnEmpty ==
    /\ [][\A t \in CtThreads : PopOnEmpty(t) =>
            /\ m_top' = m_top /\ m_pushList' = m_pushList
            /\ pPrevious' = pPrevious /\ item' = item /\ allocated' = allocated
            /\ (local'[t].pc = "pop_return" =>
                    local'[t].pNode = Null /\ m_refillLock' = FALSE)]_vars
    /\ [](\A t \in CtThreads : \A x \in Values :
            (local[t].pc = "pop_return" /\ Live = {x}) =>
                local[t].pNode /= Null /\ local[t].ret = x)

\* one thread has made two pops of the empty queue, which returned false, then
\* push(1), and its third pop returns 1
C8_Witness ==
    /\ sut = "queue" /\ active = {1} /\ phase = "run"
    /\ opsLeft = SeqOps - 4 /\ nextValue = 2 /\ Returned = 0
    /\ local[1].pc = "pop_return" /\ local[1].ret = 1
    /\ m_refillLock = FALSE

\* the nodes a thread holds detached from the push list for a refill
HeldForRefill(l) ==
    IF l.pc = "q_reverse" THEN Chain(pPrevious, l.pNode)
    ELSE Chain(pPrevious, l.refillList)

\* the nodes in a sequence
Range(q) == {q[i] : i \in 1..Len(q)}

\* the chains reverseList may be handed: up to MaxChain nodes, no node twice
Chains ==
    {q \in UNION {[1..k -> Nodes] : k \in 1..MaxChain} :
        \A i, j \in 1..Len(q) : i /= j => q[i] /= q[j]}

\* the links of a chain q, its last node linked to null; the other nodes linked to null
LinksOf(q) ==
    [n \in Nodes |->
        IF \E i \in 1..(Len(q) - 1) : q[i] = n
        THEN q[1 + CHOOSE i \in 1..(Len(q) - 1) : q[i] = n]
        ELSE Null]

\* the first k nodes met from n along the links
RECURSIVE Walk(_, _, _)
Walk(prev, n, k) ==
    IF n = Null \/ k = 0 THEN <<>> ELSE <<n>> \o Walk(prev, prev[n], k - 1)

\* q from its last element to its first
Reversed(q) == [i \in 1..Len(q) |-> q[Len(q) + 1 - i]]

\* C36: reverseList reverses exactly.  Handed the head of a non-empty chain that ends
\* in null, it returns the chain's last node, and from that node the links lead
\* through the same nodes in the opposite order and then to null: no node is dropped
\* or met twice; the links of the other nodes are as they were.
C36_ReverseExact ==
    [][\A t \in CtThreads :
        (local[t].pc = "q_reverse" /\ local'[t].pc /= "q_reverse") =>
            LET before == Walk(pPrevious, local[t].pNode, MaxNodes)
                after == Walk(pPrevious', local'[t].pNode, MaxNodes + 1)
            IN  /\ after = Reversed(before)
                /\ local'[t].pNode = before[Len(before)]
                /\ pPrevious'[before[1]] = Null
                /\ \A n \in Nodes \ Range(before) : pPrevious'[n] = pPrevious[n]]_vars

\* reverseList has returned the last node of a chain of three or more nodes that were
\* not linked in the order of their numbers
C36_Witness ==
    \E t \in CtThreads :
        /\ local[t].pc = "q_refill_load"
        /\ LET after == Walk(pPrevious, local[t].pNode, MaxNodes)
           IN  /\ Len(after) >= 3
               /\ \E i \in 1..(Len(after) - 1) : after[i] > after[i + 1]
               /\ \E i \in 1..(Len(after) - 1) : after[i] < after[i + 1]

\* the values in the queue: in the nodes of the push list, of the pop list, and of
\* the lists held for a refill
Queued ==
    {item[n] : n \in Range(Chain(pPrevious, m_pushList))
                   \cup Range(Chain(pPrevious, m_top["m_popList"].pNode))
                   \cup UNION {Range(HeldForRefill(local[u])) : u \in CtThreads}}

\* C9: queue pop returns false only when the queue is empty.  When move() hands a
\* pop the null pointer (the pop then returns false), the push list and the pop list
\* are empty and no other thread holds nodes for a refill; and when a pop returns
\* false, no value whose push returned before the pop began is still in the queue.
C9_FalseOnlyWhenEmpty ==
    /\ [][\A t \in CtThreads :
            (local[t].pc = "q_move" /\ local'[t].pc = "q_unlock") =>
                /\ m_pushList = Null
                /\ m_top["m_popList"].pNode = Null
                /\ \A u \in CtThreads \ {t} : HeldForRefill(local[u]) = <<>>]_vars
    /\ [](\A t \in CtThreads :
            (sut = "queue" /\ local[t].pc = "pop_return" /\ local[t].pNode = Null) =>
                local[t].pushedBefore \cap Queued = {})

\* a pop returns false during the run: values had been pushed before it began, and
\* another thread has since pushed a value that is in the push list
C9_Witness ==
    \E t \in CtThreads :
        /\ sut = "queue" /\ phase = "run"
        /\ local[t].pc = "pop_return" /\ local[t].pNode = Null
        /\ local[t].pushedBefore /= {}
        /\ m_pushList /= Null

\* C10: bounded footprint.  The nodes obtained from malloc are at most the initial
\* capacity, plus the most values there have been pushed and not popped, plus one
\* node for each thread that pushes.
C10_BoundedFootprint ==
    allocated <= InitialCapacity + maxLive + Cardinality(active)

\* the nodes linked into the lists, each list read from its head: free list,
\* occupied list, push list, pop list
Linked ==
    Chain(pPrevious, m_top["m_freeList"].pNode)
        \o Chain(pPrevious, m_top["m_occupiedList"].pNode)
        \o Chain(pPrevious, m_pushList)
        \o Chain(pPrevious, m_top["m_popList"].pNode)

\* the nodes a thread has in hand: the node malloc gave it, the node a list's pop
\* gave it, the list it detached with move(), the list it is about to refill with
Held(l) ==
    ((IF l.pc = "q_reverse" THEN Range(Chain(pPrevious, l.pNode))
      ELSE {l.pNode} \cup Range(Chain(pPrevious, l.refillList)))
     \cup {l.fresh}) \ {Null}

\* the values on a chain of nodes, read from its head
Items(q) == [i \in 1..Len(q) |-> item[q[i]]]

\* the push of value v had returned when the push of value w began (so it did if
\* one producer pushed v and then w)
PushedFirst(v, w) == v \in precededBy[w]

\* the values of sequence q are in the order of their pushes / in the opposite order
Ascending(q) == \A i, j \in 1..Len(q) : i < j => ~PushedFirst(q[j], q[i])
Descending(q) == \A i, j \in 1..Len(q) : i < j => ~PushedFirst(q[i], q[j])

\* the values a thread that refills has taken off the push list and not yet put on
\* the pop list or returned
Detached(l) ==
    IF l.pc \in {"q_refill_load", "q_refill_cas"}
    THEN <<item[l.pNode]>> \o Items(Chain(pPrevious, l.refillList))
    ELSE <<>>

\* C29: the order of the queue's lists.  Read from its head the pop list holds
\* values in the order of their pushes and the push list in the opposite order, and
\* no value on the push list was pushed before a value that is on the pop list or
\* that the refilling thread has detached.
C29_ListOrder ==
    LET pop == Items(Chain(pPrevious, m_top["m_popList"].pNode))
        push == Items(Chain(pPrevious, m_pushList))
    IN  /\ Ascending(pop)
        /\ Descending(push)
        /\ \A t \in CtThreads :
                /\ Ascending(Detached(local[t]))
                /\ Ascending(Detached(local[t]) \o pop)
                /\ \A a \in Range(Detached(local[t]) \o pop), b \in Range(push) :
                        ~PushedFirst(b, a)

\* a thread is about to put two or more detached values on the pop list while a
\* value pushed after them is on the push list
C29_Witness ==
    \E t \in CtThreads :
        /\ local[t].pc = "q_refill_cas"
        /\ m_pushList /= Null
        /\ PushedFirst(item[local[t].refillList], item[m_pushList])

\* a task calls pop(item) on the one thread that pops, or that thread pops the queue
\* empty after the tasks
ct_consume_enter(t) == t = 1 /\ ct_pop_enter(t)

\* the steps of a run in which every thread pushes and thread 1 alone pops
FifoStep(t) ==
    \/ ct_push_enter(t)
    \/ ct_consume_enter(t)
    \/ nl_pop_load(t)
    \/ nl_pop_read(t)
    \/ nl_pop_cas(t)
    \/ fl_malloc(t)
    \/ nl_push_load(t)
    \/ nl_push_link(t)
    \/ nl_push_cas(t)
    \/ construct(t)
    \/ copy(t)
    \/ ct_pop_return(t)
    \/ ct_drain(t)
    \/ QueueStep(t)

\* the values pop has returned
Popped == {v \in Values : popCount[v] > 0}

\* C35: first in, first out for each producer.  When several threads push and one
\* thread pops, a value is returned only after every value whose push had returned
\* when its own push began, the earlier values of its own producer among them: they
\* have been returned when pop copies it, and no value is returned twice.
C35_ProducerFifo ==
    /\ \A w \in Popped : precededBy[w] \subseteq Popped
    /\ \A t \in CtThreads :
            (local[t].pc = "pop_return" /\ local[t].pNode /= Null) =>
                precededBy[local[t].ret] \subseteq Popped
    /\ \A v \in Values : popCount[v] <= 1

\* the pop returns a value pushed after a value it has returned already, and pushed
\* while the push of another value, by another thread, was in progress
C35_Witness ==
    \E t \in CtThreads :
        /\ local[t].pc = "pop_return" /\ local[t].pNode /= Null
        /\ precededBy[local[t].ret] /= {}
        /\ \E x \in 1..(local[t].ret - 1) : x \notin precededBy[local[t].ret]

\* in how many places node n is: positions on the lists, and threads that have it
\* in hand
Places(n) ==
    LET linked == Linked
    IN  Cardinality({i \in DOMAIN linked : linked[i] = n})
            + Cardinality({t \in CtThreads : n \in Held(local[t])})

\* C28: node lifecycle.  Every node obtained from malloc is in exactly one place:
\* on the free list, on an active list, or in hand in a call in progress; so the
\* node of a pop that has returned is on the free list again, and at teardown every
\* node can be reached and freed.
C28_NodeLifecycle == \A n \in 1..allocated : Places(n) = 1

\* a call of queue::pop that is between a test_and_set that found the refill lock
\* clear and its clear
HoldsRefillLock(l) == l.attempt = 2

\* a call of queue::pop that is inside node_pop_list::refill
InRefill(l) == l.pc \in {"q_refill_load", "q_refill_cas"}

\* C22: the refill protocol is never violated.  No call reaches either logic_error
\* of node_pop_list::refill: the thread inside refill holds the refill lock and is
\* the only one that does, the head of the pop list is null, and once refill has
\* loaded the head its compare-exchange is going to succeed.
C22_RefillProtocol ==
    \A t \in CtThreads :
        /\ local[t].pc /= "logic_error"
        /\ InRefill(local[t]) =>
            /\ m_refillLock
            /\ HoldsRefillLock(local[t])
            /\ \A u \in CtThreads \ {t} : ~HoldsRefillLock(local[u])
            /\ m_top["m_popList"].pNode = Null
            /\ local[t].pc = "q_refill_cas" => m_top["m_popList"] = local[t].top

\* a thread is about to splice the refill list in while another thread is in its
\* first attempt on the pop list or waits for the refill lock
C22_Witness ==
    \E t, u \in CtThreads :
        /\ t /= u
        /\ local[t].pc = "q_refill_cas"
        /\ FirstAttempt(local[u])

\* C30: the refill lock is released.  At most one thread is between a test_and_set
\* that found the flag clear and its clear, the flag is set exactly while there is
\* such a thread, and that thread is still inside the refill section of pop: a pop
\* that copies the item or returns has cleared the flag, so the flag is clear
\* whenever no pop is in progress.
C30_RefillLockReleased ==
    LET holders == {t \in CtThreads : HoldsRefillLock(local[t])}
    IN  /\ Cardinality(holders) <= 1
        /\ m_refillLock <=> holders /= {}
        /\ \A t \in holders :
                local[t].pc \in {"nl_pop_load", "nl_pop_read", "nl_pop_cas", "q_move",
                                 "q_reverse", "q_refill_load", "q_refill_cas", "q_unlock"}
        /\ (\A t \in CtThreads : ~InPop(local[t])) => ~m_refillLock

\* a pop has refilled the pop list with two or more nodes left over and is about to
\* clear the flag another pop waits for
C30_Witness ==
    \E t, u \in CtThreads :
        /\ local[t].pc = "q_unlock"
        /\ local[t].pNode /= Null
        /\ m_top["m_popList"].pNode /= Null
        /\ local[u].pc = "q_lock"

\* m_pushList.move() is about to return a list of one node to thread t
SingleNode(t) ==
    local[t].pc = "q_move" /\ m_pushList /= Null /\ pPrevious[m_pushList] = Null

\* m_pushList.move() has returned a list of one node to thread t
SingleDetached(t) ==
    local[t].pc = "q_reverse" /\ pPrevious[local[t].pNode] = Null

\* C37: refill from a single element.  When pop finds the pop list empty and detaches
\* a push list of one node, both lists are empty; pop goes from reverseList straight
\* to releasing the lock, without refill; none of its steps from there on changes
\* the head of the pop list (pointer or sequence number), the push list or a link;
\* and it returns the value of that node.
C37_SingleElementRefill ==
    [][\A t \in CtThreads : local'[t] /= local[t] =>
        /\ SingleNode(t) =>
                /\ local'[t].pc = "q_reverse" /\ local'[t].pNode = m_pushList
                /\ m_top["m_popList"].pNode = Null /\ m_pushList' = Null
                /\ m_top' = m_top
        /\ SingleDetached(t) =>
                /\ local'[t].pc = "q_unlock" /\ local'[t].pNode = local[t].pNode
                /\ m_top["m_popList"].pNode = Null
                /\ m_top' = m_top /\ m_pushList' = m_pushList /\ pPrevious' = pPrevious
        /\ (local[t].pc \in {"q_unlock", "copy"} /\ local[t].pNode /= Null) =>
                /\ local'[t].pc = (IF local[t].pc = "copy" THEN "pop_return" ELSE "copy")
                /\ local'[t].pNode = local[t].pNode
                /\ item[local[t].pNode] \in Values
                /\ local[t].pc = "copy" => local'[t].ret = item[local[t].pNode]
                /\ m_top' = m_top /\ m_pushList' = m_pushList /\ pPrevious' = pPrevious]_vars

\* a pop has detached a single node and is about to call reverseList; the pop list is
\* empty and has been refilled before
C37_Witness ==
    \E t \in CtThreads :
        /\ SingleDetached(t)
        /\ m_top["m_popList"].pNode = Null /\ m_top["m_popList"].seqNum > 0

\* C11: exclusive node ownership.  No node is reached from the heads of two lists,
\* no node is reached twice from one head, no node a thread has in hand is on a list,
\* and no two threads have the same node in hand.
C11_ExclusiveOwnership ==
    LET linked == Linked
    IN  /\ Len(linked) = Cardinality(Range(linked))
        /\ \A t \in CtThreads :
                /\ Held(local[t]) \cap Range(linked) = {}
                /\ \A u \in CtThreads \ {t} :
                        Held(local[t]) \cap Held(local[u]) = {}

\* two calls of pop under way at once have each been handed a node by a list's pop
C11_Witness ==
    \E t \in CtThreads : \E u \in CtThreads \ {t} :
        /\ local[t].pc = "copy" /\ local[u].pc = "copy"
        /\ local[t].pNode /= local[u].pNode

\* C13: pool acquire always yields a node.  When free_list::pop has returned to
\* push, the node it returned is not null, is on no list and is in no other thread's
\* hands.
C13_AcquireYieldsNode ==
    \A t \in CtThreads : local[t].pc = "construct" =>
        /\ local[t].pNode \in Nodes
        /\ local[t].pNode \notin Range(Linked)
        /\ \A u \in CtThreads \ {t} : local[t].pNode \notin Held(local[u])

\* free_list::pop has returned to two calls of push under way at once, to each a
\* node that came from malloc during the run
C13_Witness ==
    \E t \in CtThreads : \E u \in CtThreads \ {t} :
        /\ local[t].pc = "construct" /\ local[t].pNode > InitialCapacity
        /\ local[u].pc = "construct" /\ local[u].pNode > InitialCapacity

\* free_list::pop has gone on to node_list::push with the null pointer malloc
\* returned
PushesNull(l) ==
    /\ l.this = "m_freeList"
    /\ l.pc \in {"nl_push_load", "nl_push_link", "nl_push_cas", "null_deref"}
    /\ l.fresh = Null

\* C14: allocator exhaustion.  When malloc returns null in a push, the push does not
\* go on with the null pointer: it ends with an out-of-memory failure for its
\* caller (pc "bad_alloc"), and no thread writes through the null pointer.
C14_AllocatorExhaustion ==
    \A t \in CtThreads : ~PushesNull(local[t])

\* C15: construct/destruct pairing and teardown.  push constructs an item only in a
\* slot where none lives; pop reads and destructs only a slot where an item lives;
\* and when the loop  while (pop(tempObj));  of the destructor (the same loop as the
\* test's main) has ended, no item lives in any node.
C15_ConstructDestructPaired ==
    /\ \A t \in CtThreads :
            /\ local[t].pc = "construct" => item[local[t].pNode] = Vacant
            /\ local[t].pc = "copy" => item[local[t].pNode] \in Values
    /\ phase = "done" => \A n \in Nodes : item[n] = Vacant

\* the loop has ended after a run whose calls interfered: three values were
\* constructed and every slot is vacant again
C15_Witness ==
    /\ phase = "done" /\ raced
    /\ Cardinality(pushed) >= 3
    /\ \A n \in Nodes : item[n] = Vacant

(***************************************************************************)
(* node_list on its own.                                                   *)
(*                                                                         *)
(* In stack and queue a node that a list's pop has handed out is pushed    *)
(* once, onto another list, and never comes back to the list it left.      *)
(* node_list itself accepts any node its caller has: here threads call     *)
(* node_list::pop and node_list::push on one list, pushing nodes that pop  *)
(* handed them, so that a node returns to the head it was removed from.    *)
(* A thread that reads the link of a node another thread writes reads the  *)
(* link as it was before or after the write, by the order of the steps.    *)
(***************************************************************************)
\* the locals of a thread that is in no call and has no node
LiIdleLocal ==
    [pc |-> "idle", top |-> head(Null, 0), newtop |-> head(Null, 0),
     first |-> head(Null, 0), pNode |-> Null, has |-> {}]

\* a node_list onto which LiCapacity nodes have been pushed, as free_list's
\* constructor does; LiIdle is the list no thread calls
LiAt(s) ==
    /\ li_top = head(LiCapacity, s)
    /\ li_pPrevious = [n \in LiNodes |-> n - 1]
    /\ li_local = [t \in LiThreads |-> LiIdleLocal]

\* the list after LiCapacity calls of push
LiInit == LiAt(LiCapacity)

\* the locals of a call dead at its return
LiReturn(l) ==
    [l EXCEPT !.pc = "idle", !.top = head(Null, 0), !.newtop = head(Null, 0),
              !.first = head(Null, 0), !.pNode = Null]

\* node_list::pop: auto top = m_top.load();  an empty list returns null at once
li_pop_load(t) ==
    /\ li_local[t].pc = "idle"
    /\ li_opsLeft > 0
    /\ li_opsLeft' = li_opsLeft - 1
    /\ li_local' = [li_local EXCEPT ![t] =
            IF li_top.pNode = Null THEN @
            ELSE [@ EXCEPT !.pc = "li_pop_read", !.top = li_top, !.first = li_top]]
    /\ UNCHANGED <<li_top, li_pPrevious>>
    /\ UNCHANGED liOthers

\* node_list::pop: newtop.pNode = top.pNode->pPrevious; newtop.seqNum = top.seqNum;
li_pop_read(t) ==
    /\ li_local[t].pc = "li_pop_read"
    /\ li_local' = [li_local EXCEPT ![t] = [@ EXCEPT
            !.pc = "li_pop_cas",
            !.newtop = head(li_pPrevious[li_local[t].top.pNode],
                            li_local[t].top.seqNum)]]
    /\ UNCHANGED <<li_top, li_pPrevious, li_opsLeft>>
    /\ UNCHANGED liOthers

\* node_list::pop with a compare-exchange that compares the node pointer and not
\* the sequence number
li_pop_cas_untagged(t) ==
    /\ li_local[t].pc = "li_pop_cas"
    /\ LET l == li_local[t]
       IN  IF li_top.pNode = l.top.pNode
           THEN /\ li_top' = l.newtop
                /\ li_local' = [li_local EXCEPT ![t] =
                        [LiReturn(l) EXCEPT !.has = l.has \cup {l.top.pNode}]]
           ELSE /\ li_local' = [li_local EXCEPT ![t] =
                        IF li_top.pNode = Null THEN LiReturn(l)
                        ELSE [l EXCEPT !.pc = "li_pop_read", !.top = li_top,
                                       !.newtop = head(Null, 0)]]
                /\ UNCHANGED li_top
    /\ UNCHANGED <<li_pPrevious, li_opsLeft>>
    /\ UNCHANGED liOthers

\* node_list::pop: m_top.compare_exchange_weak(top, newtop); return top.pNode on
\* success, on failure go round the loop with top reloaded
li_pop_cas(t) ==
    /\ li_local[t].pc = "li_pop_cas"
    /\ LET l == li_local[t]
       IN  IF li_top = l.top
           THEN /\ li_top' = l.newtop
                /\ li_local' = [li_local EXCEPT ![t] =
                        [LiReturn(l) EXCEPT !.has = l.has \cup {l.top.pNode}]]
           ELSE /\ li_local' = [li_local EXCEPT ![t] =
                        IF li_top.pNode = Null THEN LiReturn(l)
                        ELSE [l EXCEPT !.pc = "li_pop_read", !.top = li_top,
                                       !.newtop = head(Null, 0)]]
                /\ UNCHANGED li_top
    /\ UNCHANGED <<li_pPrevious, li_opsLeft>>
    /\ UNCHANGED liOthers

\* node_list::push(pNode), pNode a node the thread has: auto top = m_top.load();
li_push_load(t) ==
    /\ li_local[t].pc = "idle"
    /\ li_opsLeft > 0
    /\ li_opsLeft' = li_opsLeft - 1
    /\ \E n \in li_local[t].has :
            li_local' = [li_local EXCEPT ![t] = [@ EXCEPT
                !.pc = "li_push_link", !.top = li_top, !.pNode = n,
                !.has = li_local[t].has \ {n}]]
    /\ UNCHANGED <<li_top, li_pPrevious>>
    /\ UNCHANGED liOthers

\* node_list::push: pNode->pPrevious = top.pNode; newtop.seqNum = top.seqNum + 1;
li_push_link(t) ==
    /\ li_local[t].pc = "li_push_link"
    /\ li_pPrevious' = [li_pPrevious EXCEPT ![li_local[t].pNode] = li_local[t].top.pNode]
    /\ li_local' = [li_local EXCEPT ![t] = [@ EXCEPT
            !.pc = "li_push_cas",
            !.newtop = head(li_local[t].pNode, NextSeqNum(li_local[t].top.seqNum))]]
    /\ UNCHANGED <<li_top, li_opsLeft>>
    /\ UNCHANGED liOthers

\* node_list::push: m_top.compare_exchange_weak(top, newtop); return on success
li_push_cas(t) ==
    /\ li_local[t].pc = "li_push_cas"
    /\ LET l == li_local[t]
       IN  IF li_top = l.top
           THEN /\ li_top' = l.newtop
                /\ li_local' = [li_local EXCEPT ![t] = LiReturn(l)]
           ELSE /\ li_local' = [li_local EXCEPT ![t] =
                        [l EXCEPT !.pc = "li_push_link", !.top = li_top,
                                  !.newtop = head(Null, 0)]]
                /\ UNCHANGED li_top
    /\ UNCHANGED <<li_pPrevious, li_opsLeft>>
    /\ UNCHANGED liOthers

\* the steps of node_list
LiStep ==
    \E t \in LiThreads :
        \/ li_pop_load(t)
        \/ li_pop_read(t)
        \/ li_pop_cas(t)
        \/ li_push_load(t)
        \/ li_push_link(t)
        \/ li_push_cas(t)

\* the thread that takes the step, if it is thread t of the stack or the queue
Acts(t) == local'[t] /= local[t]

\* the thread that takes the step, if it is thread t of the node_list
LiActs(t) == li_local'[t] /= li_local[t]

\* C27: the sequence number of a head.  A push and a refill that succeed leave it
\* above what it was, a pop that succeeds leaves it as it was, and no step lowers
\* it (as unsigned ints).
C27_SeqNumDiscipline ==
    [][/\ \A t \in CtThreads :
            /\ (local[t].pc = "nl_push_cas" /\ Acts(t) /\ m_top' /= m_top) =>
                    SeqNumBelow(m_top[local[t].this].seqNum, m_top'[local[t].this].seqNum)
            /\ (local[t].pc = "q_refill_cas" /\ Acts(t) /\ m_top' /= m_top) =>
                    SeqNumBelow(m_top["m_popList"].seqNum, m_top'["m_popList"].seqNum)
            /\ (local[t].pc = "nl_pop_cas" /\ Acts(t) /\ m_top' /= m_top) =>
                    m_top'[local[t].this].seqNum = m_top[local[t].this].seqNum
       /\ \A t \in LiThreads :
            /\ (li_local[t].pc = "li_push_cas" /\ LiActs(t) /\ li_top' /= li_top) =>
                    SeqNumBelow(li_top.seqNum, li_top'.seqNum)
            /\ (li_local[t].pc = "li_pop_cas" /\ LiActs(t) /\ li_top' /= li_top) =>
                    li_top'.seqNum = li_top.seqNum
       /\ \A l \in DOMAIN m_top : ~SeqNumBelow(m_top'[l].seqNum, m_top[l].seqNum)
       /\ ~SeqNumBelow(li_top'.seqNum, li_top.seqNum)]_vars

\* C12: ABA protection.  A pop's compare-exchange on the head of a tagged list
\* succeeds only when the head is the descriptor the pop read, and the node it
\* installs as the new head is then the link of the node it removes, also when that
\* node left the head and was pushed back while the pop was under way.
C12_AbaProtection ==
    [][\A t \in LiThreads :
        (/\ li_local[t].pc = "li_pop_cas"
         /\ li_local'[t].pc = "idle"
         /\ li_top' /= li_top) =>
            /\ li_top = li_local[t].top
            /\ li_top'.pNode = li_pPrevious[li_local[t].top.pNode]]_vars

\* a pop is about to succeed in its compare-exchange on a node that was at the head
\* when the pop began, has been removed and has been pushed back since
C12_Witness ==
    \E t \in LiThreads :
        /\ li_local[t].pc = "li_pop_cas"
        /\ li_top = li_local[t].top
        /\ li_local[t].first.pNode = li_top.pNode
        /\ li_local[t].first.seqNum < li_top.seqNum

(***************************************************************************)
(* Progress.  Every thread is an operating-system thread (std::async,     *)
(* std::thread): inside a call it keeps being scheduled, so its next step  *)
(* is taken if it stays possible -- weak fairness per thread.  Nothing     *)
(* makes a thread begin a call of lock or lock_shared.  The thread         *)
(* `stalled' is the exception: it may stop anywhere and never run again.   *)
(* A spin that finds nothing changed (a failed test_and_set, a weak        *)
(* compare-exchange that fails for no reason) leaves the state as it was   *)
(* and so is no step of the thread; memory orders are not modelled.        *)
(***************************************************************************)
\* the steps of thread t inside a call of the single-counter shared_mutex, and
\* inside the section the call guards
ScRun(t) ==
    \/ sc_lock_cas(t)
    \/ sc_lock_wait(t)
    \/ sc_write_first(t)
    \/ sc_write_second(t)
    \/ sc_unlock(t)
    \/ sc_lock_shared_cas(t)
    \/ sc_read(t)
    \/ sc_unlock_shared_load(t)
    \/ sc_unlock_shared_cas(t)

\* thread t begins a call of lock or lock_shared
ScCalls(t) == sc_lock_enter(t) \/ sc_lock_shared_enter(t)

\* the steps of thread t on the stack or the queue
CtRun(t) == SharedStep(t) \/ QueueStep(t)

\* thread t is inside lock() or lock_shared()
ScAcquiring(t) == sc_pc[t] \in {"lock_cas", "lock_wait", "lock_shared_cas"}

\* thread t is inside a call of the mutex or inside the section the call guards
InMutex(t) == sc_pc[t] \notin {"idle", "unused"}

\* thread t is inside push or pop
InCall(t) == local[t].pc /= "idle"

\* C18: the stack is lock-free.  When one thread may stop for good anywhere inside
\* push or pop, every call of push or pop by another thread still returns; and a
\* compare-exchange on a list head fails (sends its thread round the loop again)
\* only when the head is no longer the one the thread loaded.
C18_StackLockFree ==
    /\ \A t \in CtThreads :
            (sut = "stack" /\ stalled \notin {0, t} /\ InCall(t)) ~> ~InCall(t)
    /\ [][\A t \in CtThreads :
            (/\ sut = "stack"
             /\ local[t].pc \in {"nl_pop_cas", "nl_push_cas"}
             /\ local'[t].pc \in {"nl_pop_read", "nl_push_link"}) =>
                 /\ m_top[local[t].this] /= local[t].top
                 /\ m_top[local[t].this].seqNum >= local[t].top.seqNum]_vars

\* a thread has stopped before its compare-exchange on a stack's list head, which has
\* changed since it loaded it, and the other threads have finished all the calls
C18_Witness ==
    /\ sut = "stack"
    /\ stalled \in CtThreads
    /\ local[stalled].pc \in {"nl_pop_cas", "nl_push_cas"}
    /\ m_top[local[stalled].this] /= local[stalled].top
    /\ \A t \in CtThreads \ {stalled} : ~InCall(t)
    /\ opsLeft = 0
    /\ pushed /= {}

\* C19: the queue is lock-free.  When one thread may stop for good anywhere inside
\* push or pop, the refill step included, every call of push or pop by another thread
\* still returns.
C19_QueueLockFree ==
    \A t \in CtThreads :
        (sut = "queue" /\ stalled \notin {0, t} /\ InCall(t)) ~> ~InCall(t)

\* C20: completion once contention clears.  When every thread keeps running, every
\* call of push or pop returns; a thread is not inside lock() or lock_shared() for
\* ever once the other threads have left the mutex for good; and whenever a thread is
\* inside a call, some thread inside a call has a step that changes the state.
C20_CompletesOnceClear ==
    /\ \A t \in CtThreads : (stalled = 0 /\ InCall(t)) ~> ~InCall(t)
    /\ \A t \in LvThreads : <>[]ScAlone(t) => []<>(~ScAcquiring(t))
    /\ []((\E t \in LvThreads : InMutex(t)) =>
                ENABLED <<\E t \in LvThreads : ScRun(t)>>_vars)
    /\ []((stalled = 0 /\ \E t \in CtThreads : InCall(t)) =>
                ENABLED <<\E t \in CtThreads : CtRun(t)>>_vars)

\* a lock() has claimed the mutex and waits for a shared section to end
C20_Witness ==
    \E t, u \in LvThreads :
        /\ sc_pc[t] = "lock_wait"
        /\ sc_current_ctr[t] = 1
        /\ ScInShared(u)
        /\ m_counter = -1

\* a thread's program calls lock_shared()
cf_lock_shared_call(t) == cf_pc[t] = "idle" /\ cf_lock_shared_enter(t)

\* lock_shared() calls itself once the flag is clear
cf_lock_shared_recurse(t) == cf_pc[t] = "lock_shared_retry" /\ cf_lock_shared_enter(t)

\* the steps of thread t inside a call of the counter+flag shared_mutex, and inside
\* the section the call guards
CfRun(t) ==
    \/ cf_lock_cas(t)
    \/ cf_lock_wait(t)
    \/ cf_write_first(t)
    \/ cf_write_second(t)
    \/ cf_unlock(t)
    \/ cf_lock_shared_recurse(t)
    \/ cf_lock_shared_inc(t)
    \/ cf_lock_shared_check(t)
    \/ cf_lock_shared_backout(t)
    \/ cf_lock_shared_spin(t)
    \/ cf_read(t)
    \/ cf_unlock_shared_load(t)
    \/ cf_unlock_shared_cas(t)

\* thread t begins a call of lock or lock_shared of the counter+flag shared_mutex
CfCalls(t) == cf_lock_enter(t) \/ cf_lock_shared_call(t)

\* C33: the back-out prevents deadlock.  When every thread keeps running, a lock()
\* that has set the exclusive flag reads the counter at 0 and returns; and a
\* lock_shared() that waits for the flag to clear has no increment in place: the
\* counter is the number of threads between an increment and the decrement that
\* undoes it, none of which waits for the flag.
C33_BackoutNoDeadlock ==
    /\ \A t \in LvThreads : (cf_pc[t] = "lock_wait") ~> CfInExclusive(t)
    /\ [](\A t \in LvThreads : cf_pc[t] = "lock_shared_spin" =>
              m_shared_counter = Cardinality({u \in CfThreads \ {t} : CfCounted(u)}))

\* thread t is inside lock_shared(), its recursive calls included
CfPending(t) ==
    cf_pc[t] \in {"lock_shared_inc", "lock_shared_check", "lock_shared_backout",
                  "lock_shared_spin", "lock_shared_retry"}

\* C34 as claimed: the retry of lock_shared() terminates.  When every thread keeps
\* running and from some point on no thread calls lock(), every pending lock_shared()
\* returns, with the counter incremented once on its behalf.
C34_RetryTerminates ==
    /\ (<>[][\A t \in LvThreads : ~cf_lock_enter(t)]_vars) =>
            \A t \in LvThreads : CfPending(t) ~> CfInShared(t)
    /\ [](m_shared_counter = Cardinality({u \in CfThreads : CfCounted(u)}))

\* C34, amended: the retry of lock_shared() terminates once the calls stop.  When
\* every thread keeps running and from some point on no thread begins a call of lock()
\* or of lock_shared(), every pending lock_shared() returns, with the counter
\* incremented once on its behalf.
C34_RetryTerminatesOnceQuiet ==
    /\ (<>[][\A t \in LvThreads : ~CfCalls(t)]_vars) =>
            \A t \in LvThreads : CfPending(t) ~> CfInShared(t)
    /\ [](\A t \in LvThreads : CfInShared(t) =>
              m_shared_counter = 1 + Cardinality({u \in CfThreads \ {t} : CfCounted(u)}))

\* a lock_shared() has backed out, has seen the flag clear and is about to call
\* itself, while no thread is inside lock() or an exclusive section
C34_Witness ==
    \E t \in LvThreads :
        /\ cf_pc[t] = "lock_shared_retry"
        /\ ~m_exclusive_access
        /\ \A u \in CfThreads :
                cf_pc[u] \notin {"lock_cas", "lock_wait"} /\ ~CfInExclusive(u)

\* C26: a claim is granted.  When every thread keeps running, a lock() that has
\* won its claiming exchange returns: the shared holders there were at the claim
\* leave, and a lock_shared() that arrives later does not enter before it.
C26_ClaimGranted ==
    /\ \A t \in LvThreads : (sc_pc[t] = "lock_wait") ~> ScInExclusive(t)
    /\ [][\A t \in LvThreads :
            (sc_pc[t] = "lock_wait" /\ sc_pc'[t] = "lock_wait") =>
                Cardinality(ScHolders') <= Cardinality(ScHolders)]_vars

\* a lock() has claimed over a shared holder while another lock_shared() has arrived
\* and retries
C26_Witness ==
    \E t, u \in LvThreads :
        /\ sc_pc[t] = "lock_wait"
        /\ sc_current_ctr[t] = 1
        /\ sc_pc[u] = "lock_shared_cas"

\* a call of lock() has thrown logic_error and its thread has not called unlock()
ScThrown == \E t \in ScThreads : sc_pc[t] = "logic_error"

\* a thread returns from unlock() in this step
ScUnlocks ==
    \E u \in ScThreads : sc_pc[u] \in {"exclusive_done", "logic_error"} /\ sc_pc'[u] = "idle"

\* C39: single-counter shared_mutex, lock() that fails.  When lock() throws
\* logic_error because it found the counter below -n-1, it leaves the counter as
\* it found it, negative; and from then until a thread calls unlock() the counter
\* stays negative, no lock() wins its claim or returns and no lock_shared()
\* returns.
C39_FailedLockStaysClaimed ==
    /\ [](ScThrown => m_counter < 0)
    /\ [][\A t \in ScThreads : sc_pc[t] = "lock_wait" /\ sc_pc'[t] = "logic_error" =>
              /\ m_counter < (0 - sc_current_ctr[t]) - 1
              /\ m_counter' = m_counter]_vars
    /\ [][ScThrown /\ ~ScUnlocks =>
              /\ m_counter' < 0
              /\ \A u \in ScThreads :
                    sc_pc'[u] \in {"lock_wait", "exclusive", "shared"} => sc_pc'[u] = sc_pc[u]]_vars

\* a lock() has thrown after the one unpaired unlock_shared(), and a thread that
\* began lock() or lock_shared() afterwards has failed its exchange on the
\* negative counter
C39_Witness ==
    \E t, u \in ScThreads :
        /\ sc_pc[t] = "logic_error"
        /\ m_counter < -1
        /\ sc_unpaired = 0
        /\ sc_pc[u] \in {"lock_cas", "lock_shared_cas"}

(***************************************************************************)
(* stack_lf, the stack whose head is a bare node pointer                   *)
(* (src/stack/stack_lf_unbounded_pta.h).  push takes its node from new     *)
(* and pop gives it back with delete, so an address may hold one node      *)
(* after another.                                                          *)
(***************************************************************************)
\* the addresses new can return: one more than the nodes on the stack at the start
LfNodes == 1..(LfCapacity + 1)

\* the locals of a thread that is in no call
LfIdleLocal == [pc |-> "idle", top |-> Null, newtop |-> Null, previous |-> Null, seen |-> 0]

\* a stack on which LfCapacity calls of push have returned: node LfCapacity on top,
\* node 1 at the bottom
LfInit ==
    /\ lf_top = LfCapacity
    /\ lf_previous = [n \in LfNodes |-> IF n <= LfCapacity THEN n - 1 ELSE Null]
    /\ lf_item = [n \in LfNodes |-> IF n <= LfCapacity THEN n ELSE Vacant]
    /\ lf_allocated = 1..LfCapacity
    /\ lf_gen = [n \in LfNodes |-> IF n <= LfCapacity THEN 1 ELSE 0]
    /\ lf_local = [t \in LfThreads |-> LfIdleLocal]
    /\ lf_opsLeft = LfOps
    /\ lf_aba = FALSE

\* what a load of m_top tells the thread about the node it will work on: the
\* generation of the node that lives at that address, 0 when none does
LfSeen(n) == IF n \in lf_allocated THEN lf_gen[n] ELSE 0

\* the node thread t's pop loaded as top is not the node that lives at that
\* address now: it was deleted, and the address is free or holds a later node
LfRecycled(t) ==
    \/ lf_local[t].top \notin lf_allocated
    \/ lf_gen[lf_local[t].top] /= lf_local[t].seen

\* push, line 38: new node(item) returns any address at which no node lives; the
\* constructor sets m_item and leaves m_previous as the memory held it
lf_push_enter(t) ==
    /\ lf_local[t].pc = "idle"
    /\ lf_opsLeft > 0
    /\ \E n \in LfNodes \ lf_allocated :
        /\ lf_allocated' = lf_allocated \cup {n}
        /\ lf_gen' = [lf_gen EXCEPT ![n] = @ + 1]
        /\ lf_item' = [lf_item EXCEPT ![n] = t]
        /\ lf_local' = [lf_local EXCEPT ![t] = [LfIdleLocal EXCEPT !.pc = "push_load", !.newtop = n]]
    /\ lf_opsLeft' = lf_opsLeft - 1
    /\ UNCHANGED <<lf_top, lf_previous>>
    /\ UNCHANGED lf_aba
    /\ UNCHANGED lfOthers

\* push, line 40: auto top = m_top.load(relaxed)
lf_push_load(t) ==
    /\ lf_local[t].pc = "push_load"
    /\ lf_local' = [lf_local EXCEPT ![t].pc = "push_link", ![t].top = lf_top]
    /\ UNCHANGED <<lf_top, lf_previous, lf_item, lf_allocated, lf_gen, lf_opsLeft>>
    /\ UNCHANGED lf_aba
    /\ UNCHANGED lfOthers

\* push, line 43: newtop->m_previous = top
lf_push_link(t) ==
    /\ lf_local[t].pc = "push_link"
    /\ lf_previous' = [lf_previous EXCEPT ![lf_local[t].newtop] = lf_local[t].top]
    /\ lf_local' = [lf_local EXCEPT ![t].pc = "push_cas"]
    /\ UNCHANGED <<lf_top, lf_item, lf_allocated, lf_gen, lf_opsLeft>>
    /\ UNCHANGED lf_aba
    /\ UNCHANGED lfOthers

\* push, line 44: m_top.compare_exchange_weak(top, newtop); a failure reloads top and
\* the loop links again (a spurious failure changes nothing)
lf_push_cas(t) ==
    /\ lf_local[t].pc = "push_cas"
    /\ IF lf_top = lf_local[t].top
       THEN /\ lf_top' = lf_local[t].newtop
            /\ lf_local' = [lf_local EXCEPT ![t] = LfIdleLocal]
       ELSE /\ lf_top' = lf_top
            /\ lf_local' = [lf_local EXCEPT ![t].pc = "push_link", ![t].top = lf_top]
    /\ UNCHANGED <<lf_previous, lf_item, lf_allocated, lf_gen, lf_opsLeft>>
    /\ UNCHANGED lf_aba
    /\ UNCHANGED lfOthers

\* pop, lines 51-55 and 63-66: top = m_top.load(relaxed); a null top ends the loop
\* and the call returns false
lf_pop_enter(t) ==
    /\ lf_local[t].pc = "idle"
    /\ lf_opsLeft > 0
    /\ lf_opsLeft' = lf_opsLeft - 1
    /\ lf_local' = [lf_local EXCEPT ![t] =
                      IF lf_top = Null THEN LfIdleLocal
                      ELSE [LfIdleLocal EXCEPT !.pc = "pop_read", !.top = lf_top,
                                               !.seen = LfSeen(lf_top)]]
    /\ UNCHANGED <<lf_top, lf_previous, lf_item, lf_allocated, lf_gen>>
    /\ UNCHANGED lf_aba
    /\ UNCHANGED lfOthers

\* pop, line 55: the argument top->m_previous is read before the exchange.  When no
\* node lives at top any more the read is of freed memory and may give any pointer
lf_pop_read(t) ==
    /\ lf_local[t].pc = "pop_read"
    /\ \E p \in LfNodes \cup {Null} :
        /\ lf_local[t].top \in lf_allocated => p = lf_previous[lf_local[t].top]
        /\ lf_local' = [lf_local EXCEPT ![t].pc = "pop_cas", ![t].previous = p]
    /\ UNCHANGED <<lf_top, lf_previous, lf_item, lf_allocated, lf_gen, lf_opsLeft>>
    /\ UNCHANGED lf_aba
    /\ UNCHANGED lfOthers

\* a pop that reads top->m_previous once, before its loop
lf_pop_cas_no_reread(t) ==
    /\ lf_local[t].pc = "pop_cas"
    /\ IF lf_top = lf_local[t].top
       THEN /\ lf_top' = lf_local[t].previous
            /\ lf_aba' = (lf_aba \/ LfRecycled(t))
            /\ lf_local' = [lf_local EXCEPT ![t].pc = "pop_copy"]
       ELSE /\ lf_top' = lf_top
            /\ lf_aba' = lf_aba
            /\ lf_local' = [lf_local EXCEPT ![t] =
                              IF lf_top = Null THEN LfIdleLocal
                              ELSE [@ EXCEPT !.pc = "pop_cas", !.top = lf_top,
                                             !.seen = LfSeen(lf_top)]]
    /\ UNCHANGED <<lf_previous, lf_item, lf_allocated, lf_gen, lf_opsLeft>>
    /\ UNCHANGED lfOthers

\* pop, line 55: m_top.compare_exchange_weak(top, top->m_previous) compares the
\* pointer alone.  A failure reloads top: the loop reads m_previous again, or the
\* call returns false when the stack is empty
lf_pop_cas(t) ==
    /\ lf_local[t].pc = "pop_cas"
    /\ IF lf_top = lf_local[t].top
       THEN /\ lf_top' = lf_local[t].previous
            /\ lf_aba' = (lf_aba \/ LfRecycled(t))
            /\ lf_local' = [lf_local EXCEPT ![t].pc = "pop_copy"]
       ELSE /\ lf_top' = lf_top
            /\ lf_aba' = lf_aba
            /\ lf_local' = [lf_local EXCEPT ![t] =
                              IF lf_top = Null THEN LfIdleLocal
                              ELSE [@ EXCEPT !.pc = "pop_read", !.top = lf_top,
                                             !.seen = LfSeen(lf_top)]]
    /\ UNCHANGED <<lf_previous, lf_item, lf_allocated, lf_gen, lf_opsLeft>>
    /\ UNCHANGED lfOthers

\* pop, lines 59-61: item = top->m_item; delete top; return true.  When no node
\* lives at top the delete is of freed memory: the thread's call has no defined
\* outcome and the model follows it no further
lf_pop_copy(t) ==
    /\ lf_local[t].pc = "pop_copy"
    /\ IF lf_local[t].top \in lf_allocated
       THEN /\ lf_allocated' = lf_allocated \ {lf_local[t].top}
            /\ lf_item' = [lf_item EXCEPT ![lf_local[t].top] = Vacant]
            /\ lf_local' = [lf_local EXCEPT ![t] = LfIdleLocal]
       ELSE /\ lf_local' = [lf_local EXCEPT ![t].pc = "undefined"]
            /\ UNCHANGED <<lf_allocated, lf_item>>
    /\ UNCHANGED <<lf_top, lf_previous, lf_gen, lf_opsLeft>>
    /\ UNCHANGED lf_aba
    /\ UNCHANGED lfOthers

LfStep ==
    \E t \in LfThreads :
        \/ lf_push_enter(t)
        \/ lf_push_load(t)
        \/ lf_push_link(t)
        \/ lf_push_cas(t)
        \/ lf_pop_enter(t)
        \/ lf_pop_read(t)
        \/ lf_pop_cas(t)
        \/ lf_pop_copy(t)

\* the exchange of thread t's pop succeeds in this step
LfPopped(t) == lf_local[t].pc = "pop_cas" /\ lf_local'[t].pc = "pop_copy"

\* C38: the exchange of pop compares the node pointer alone, so it can succeed
\* after the node it loaded was popped and deleted and its address was pushed
\* again, and then it installs the m_previous it read from the old node as the
\* head, a node that is not the second element any more.  Nothing else makes the
\* stack go wrong first: the exchange of a pop always installs the pointer the pop
\* read, and until some exchange has succeeded on a recycled node, an exchange
\* that succeeds on a node that was not recycled finds that node alive and
\* installs its m_previous, the second element.
C38_UntaggedAba ==
    [][\A t \in LfThreads : LfPopped(t) =>
          /\ lf_top' = lf_local[t].previous
          /\ ~lf_aba /\ ~LfRecycled(t) =>
                /\ lf_local[t].top \in lf_allocated
                /\ lf_top' = lf_previous[lf_local[t].top]]_vars

\* the exchange of a pop has succeeded on an address that holds a later node
\* than the one the pop loaded, and the head it installed is neither that node's
\* m_previous nor a node that lives
C38_Witness ==
    \E t \in LfThreads :
        /\ lf_local[t].pc = "pop_copy"
        /\ lf_local[t].top \in lf_allocated
        /\ lf_gen[lf_local[t].top] > lf_local[t].seen
        /\ lf_local[t].seen > 0
        /\ lf_top = lf_local[t].previous
        /\ lf_top /= lf_previous[lf_local[t].top]
        /\ lf_top /= Null
        /\ lf_top \notin lf_allocated

(***************************************************************************)
(* Singleton<T> (src/singleton/singleton.h): get() checks m_pObj, and when *)
(* it is null checks it again under m_mtx before it constructs the object. *)
(* The acquire load pairs with the release store, so a thread that reads   *)
(* the pointer also sees the object the constructor left.                  *)
(***************************************************************************)
\* lines 50-58: m_pObj starts null and m_mtx free; no thread is in get()
SgInit ==
    /\ sg_pObj = Null
    /\ sg_mtx = 0
    /\ sg_objects = 0
    /\ sg_complete = {}
    /\ sg_local = [t \in SgThreads |-> [pc |-> "idle", pObj |-> Null]]
    /\ sg_got = [t \in SgThreads |-> Null]

\* lines 35-36: T * pObj = m_pObj.load(acquire); if (!pObj)
sg_get_enter(t) ==
    /\ sg_local[t].pc = "idle"
    /\ sg_local' = [sg_local EXCEPT ![t] = [pc |-> IF sg_pObj = Null THEN "lock" ELSE "return",
                                           pObj |-> sg_pObj]]
    /\ UNCHANGED <<sg_pObj, sg_mtx, sg_objects, sg_complete, sg_got>>
    /\ UNCHANGED sgOthers

\* line 38: std::lock_guard<std::mutex> lock(m_mtx) blocks while another thread
\* holds the mutex
sg_lock(t) ==
    /\ sg_local[t].pc = "lock"
    /\ sg_mtx = 0
    /\ sg_mtx' = t
    /\ sg_local' = [sg_local EXCEPT ![t].pc = "recheck"]
    /\ UNCHANGED <<sg_pObj, sg_objects, sg_complete, sg_got>>
    /\ UNCHANGED sgOthers

\* a get() that constructs without the second check
sg_recheck_skipped(t) ==
    /\ sg_local[t].pc = "recheck"
    /\ sg_local' = [sg_local EXCEPT ![t] = [pc |-> "new", pObj |-> Null]]
    /\ UNCHANGED <<sg_pObj, sg_mtx, sg_objects, sg_complete, sg_got>>
    /\ UNCHANGED sgOthers

\* lines 39-40: pObj = m_pObj.load(relaxed); if (!pObj)
sg_recheck(t) ==
    /\ sg_local[t].pc = "recheck"
    /\ sg_local' = [sg_local EXCEPT ![t] = [pc |-> IF sg_pObj = Null THEN "new" ELSE "unlock",
                                           pObj |-> sg_pObj]]
    /\ UNCHANGED <<sg_pObj, sg_mtx, sg_objects, sg_complete, sg_got>>
    /\ UNCHANGED sgOthers

\* line 42, new T(): storage is taken and the constructor of T begins (the test's
\* constructor sleeps for seconds); pObj is not assigned before it returns
sg_new_begin(t) ==
    /\ sg_local[t].pc = "new"
    /\ sg_objects' = sg_objects + 1
    /\ sg_local' = [sg_local EXCEPT ![t].pc = "construct"]
    /\ UNCHANGED <<sg_pObj, sg_mtx, sg_complete, sg_got>>
    /\ UNCHANGED sgOthers

\* line 42, pObj = new T(): the constructor returns and pObj points at the object
\* it built, the latest one begun (the mutex lets one thread construct at a time)
sg_new_end(t) ==
    /\ sg_local[t].pc = "construct"
    /\ sg_complete' = sg_complete \cup {sg_objects}
    /\ sg_local' = [sg_local EXCEPT ![t] = [pc |-> "store", pObj |-> sg_objects]]
    /\ UNCHANGED <<sg_pObj, sg_mtx, sg_objects, sg_got>>
    /\ UNCHANGED sgOthers

\* line 43: m_pObj.store(pObj, release)
sg_store(t) ==
    /\ sg_local[t].pc = "store"
    /\ sg_pObj' = sg_local[t].pObj
    /\ sg_local' = [sg_local EXCEPT ![t].pc = "unlock"]
    /\ UNCHANGED <<sg_mtx, sg_objects, sg_complete, sg_got>>
    /\ UNCHANGED sgOthers

\* line 45: the lock_guard leaves scope and releases m_mtx
sg_unlock(t) ==
    /\ sg_local[t].pc = "unlock"
    /\ sg_mtx' = 0
    /\ sg_local' = [sg_local EXCEPT ![t].pc = "return"]
    /\ UNCHANGED <<sg_pObj, sg_objects, sg_complete, sg_got>>
    /\ UNCHANGED sgOthers

\* line 46: return pObj; the thread may call get() again
sg_return(t) ==
    /\ sg_local[t].pc = "return"
    /\ sg_got' = [sg_got EXCEPT ![t] = sg_local[t].pObj]
    /\ sg_local' = [sg_local EXCEPT ![t] = [pc |-> "idle", pObj |-> Null]]
    /\ UNCHANGED <<sg_pObj, sg_mtx, sg_objects, sg_complete>>
    /\ UNCHANGED sgOthers

SgStep ==
    \E t \in SgThreads :
        \/ sg_get_enter(t)
        \/ sg_lock(t)
        \/ sg_recheck(t)
        \/ sg_new_begin(t)
        \/ sg_new_end(t)
        \/ sg_store(t)
        \/ sg_unlock(t)
        \/ sg_return(t)

\* C40: however many threads call get() at once, T is constructed at most once,
\* every call returns the same pointer and that pointer is not null, and no call
\* returns before the constructor of the object it returns has returned.
C40_SingletonOnce ==
    /\ sg_objects <= 1
    /\ \A t \in SgThreads : sg_local[t].pc = "return" =>
          /\ sg_local[t].pObj /= Null
          /\ sg_local[t].pObj \in sg_complete
          /\ \A u \in SgThreads : sg_got[u] /= Null => sg_got[u] = sg_local[t].pObj
    /\ \A t \in SgThreads : sg_local[t].pc = "idle" /\ sg_got[t] /= Null => sg_got[t] \in sg_complete

\* a thread that found m_pObj null and waited for the mutex finds under the mutex
\* the object another thread built meanwhile, while a third call has returned it
C40_Witness ==
    \E t, u \in SgThreads :
        /\ t /= u
        /\ sg_local[t].pc = "unlock"
        /\ sg_mtx = t
        /\ sg_objects = 1
        /\ sg_local[t].pObj = sg_got[u]
        /\ sg_got[u] /= Null
        /\ \E w \in SgThreads \ {t, u} : sg_local[w].pc = "lock"

(***************************************************************************)
(* Specifications: one per class.  The state of the classes a              *)
(* specification does not run stays as constructed.                        *)
(***************************************************************************)
ScNext == ScStep
CfNext == CfStep
LiNext == LiStep
StackNext == \E t \in CtThreads : SharedStep(t)
QueueNext == \E t \in CtThreads : SharedStep(t) \/ QueueStep(t)
OomNext == \E t \in CtThreads : SharedStep(t) \/ QueueStep(t) \/ fl_malloc_null(t)

\* the containers as constructed, before a test chooses class, threads and calls
CtIdle == CtInit /\ sut = "stack" /\ active = {} /\ opsLeft = 0

\* a run that keeps no track of the order of the calls of push
OrderOff == precededBy = <<>>

\* a run that keeps no track of happens-before
HbOff == HbInit /\ hb_track = FALSE

\* every call of unlock_shared() follows a call of lock_shared() by the same thread
ScPaired == sc_unpaired = 0

\* the node_list no thread calls
LiIdle == LiInit /\ li_opsLeft = 0

\* threads that lock and lock_shared one single-counter shared_mutex
InitSc == stalled = 0 /\ HbOff /\ OrderOff /\ ScInit /\ CfInit /\ LfInit /\ SgInit /\ ScPaired /\ cf_may_lock = {} /\ CtIdle /\ LiIdle
SpecSc == InitSc /\ [][ScNext]_vars

\* threads that lock and lock_shared one counter+flag shared_mutex
InitCf == stalled = 0 /\ HbOff /\ OrderOff /\ ScInit /\ CfInit /\ LfInit /\ SgInit /\ ScPaired /\ cf_may_lock = CfThreads /\ CtIdle /\ LiIdle
SpecCf == InitCf /\ [][CfNext]_vars

\* threads that lock_shared one counter+flag shared_mutex, one of which also calls
\* lock()
InitCfOne == stalled = 0 /\ HbOff /\ OrderOff /\ ScInit /\ CfInit /\ LfInit /\ SgInit /\ ScPaired /\ cf_may_lock = {1} /\ CtIdle /\ LiIdle
SpecCfOne == InitCfOne /\ [][CfNext]_vars

\* threads that lock_shared one counter+flag shared_mutex, two of which also call
\* lock()
InitCfTwo == stalled = 0 /\ HbOff /\ OrderOff /\ ScInit /\ CfInit /\ LfInit /\ SgInit /\ ScPaired /\ cf_may_lock = {1, 2} /\ CtIdle /\ LiIdle
SpecCfTwo == InitCfTwo /\ [][CfNext]_vars

\* the concurrent tests: every thread runs tasks, or two threads run more of them
Workload ==
    \/ active = CtThreads /\ opsLeft = MaxOps
    \/ active = {1, 2} /\ opsLeft = PairOps

\* tasks that push and pop one stack concurrently, then the main thread pops it empty
InitStack ==
    /\ stalled = 0 /\ HbOff /\ OrderOff /\ ScInit /\ CfInit /\ LfInit /\ SgInit /\ ScPaired /\ cf_may_lock = {} /\ CtInit /\ LiIdle
    /\ sut = "stack" /\ Workload
SpecStack == InitStack /\ [][StackNext]_vars

\* tasks that push and pop one queue concurrently, then the main thread pops it empty
InitQueue ==
    /\ stalled = 0 /\ HbOff /\ OrderOff /\ ScInit /\ CfInit /\ LfInit /\ SgInit /\ ScPaired /\ cf_may_lock = {} /\ CtInit /\ LiIdle
    /\ sut = "queue" /\ Workload
SpecQueue == InitQueue /\ [][QueueNext]_vars

\* tasks that push and pop one stack or one queue concurrently, then the main thread
\* pops it empty
InitBoth ==
    /\ stalled = 0 /\ HbOff /\ OrderOff /\ ScInit /\ CfInit /\ LfInit /\ SgInit /\ ScPaired /\ cf_may_lock = {} /\ CtInit /\ LiIdle
    /\ sut \in {"stack", "queue"} /\ Workload
SpecBoth == InitBoth /\ [][QueueNext]_vars

\* one thread that pushes and pops one stack or one queue, with a malloc that may
\* fail
InitOom ==
    /\ stalled = 0 /\ HbOff /\ OrderOff /\ ScInit /\ CfInit /\ LfInit /\ SgInit /\ ScPaired /\ cf_may_lock = {} /\ CtInit /\ LiIdle
    /\ sut \in {"stack", "queue"} /\ active = {1} /\ opsLeft = SeqOps
SpecOom == InitOom /\ [][OomNext]_vars

\* threads that call pop and push of one node_list
InitLi ==
    /\ stalled = 0 /\ HbOff /\ OrderOff /\ ScInit /\ CfInit /\ LfInit /\ SgInit /\ ScPaired /\ cf_may_lock = {} /\ CtIdle
    /\ LiInit /\ li_opsLeft = LiOps
SpecLi == InitLi /\ [][LiNext]_vars

\* one thread that pushes and pops one stack or one queue
InitSeq ==
    /\ stalled = 0 /\ HbOff /\ OrderOff /\ ScInit /\ CfInit /\ LfInit /\ SgInit /\ ScPaired /\ cf_may_lock = {} /\ CtInit /\ LiIdle
    /\ sut \in {"stack", "queue"} /\ active = {1} /\ opsLeft = SeqOps
SpecSeq == InitSeq /\ [][QueueNext]_vars

\* the runs checked for progress: threads on one single-counter shared_mutex, or two
\* tasks on one stack or one queue, one of which may stop for good
LiveNext ==
    \/ \E t \in LvThreads : ScCalls(t) \/ ScRun(t)
    \/ \E t \in CtThreads : CtRun(t)
LiveFair ==
    /\ \A t \in LvThreads : WF_vars(ScRun(t))
    /\ \A t \in CtThreads : WF_vars(t /= stalled /\ CtRun(t))
\* a run without the mutex: no thread is there to call it
ScUnused ==
    /\ m_counter = 0
    /\ sc_pc = [t \in ScThreads |-> "unused"]
    /\ sc_current_ctr = [t \in ScThreads |-> 0]
    /\ sc_pd = <<0, 0>>
    /\ sc_seen = [t \in ScThreads |-> <<0, 0>>]
\* a run without tasks: the container is constructed and never called
CtUnused == CtBuilt /\ phase = "done" /\ sut = "stack" /\ active = {} /\ opsLeft = 0
InitLive ==
    /\ HbOff /\ OrderOff /\ CfInit /\ LfInit /\ SgInit /\ ScPaired /\ cf_may_lock = {} /\ LiIdle
    /\ \/ ScInit /\ CtUnused /\ stalled = 0
       \/ /\ ScUnused /\ CtBuilt /\ phase = "run"
          /\ sut \in {"stack", "queue"} /\ active = {1, 2} /\ opsLeft = LiveOps
          /\ stalled \in {0, 1, 2}
SpecLive == InitLive /\ [][LiveNext]_vars /\ LiveFair

\* the runs of the counter+flag shared_mutex checked for progress: every thread calls
\* lock_shared, the threads of cf_may_lock also call lock
CfLiveNext == \E t \in LvThreads : CfCalls(t) \/ CfRun(t)
CfLiveFair == \A t \in LvThreads : WF_vars(CfRun(t))
InitCfLive ==
    /\ stalled = 0 /\ HbOff /\ OrderOff /\ ScInit /\ CfInit /\ LfInit /\ SgInit /\ ScPaired /\ CtIdle /\ LiIdle
    /\ cf_may_lock = LvThreads
SpecCfLive == InitCfLive /\ [][CfLiveNext]_vars /\ CfLiveFair

\* tasks that push into one queue concurrently while thread 1, between its own pushes,
\* is the only thread that pops; then thread 1 pops the queue empty.  The run keeps
\* track of the order of the calls of push
FifoNext == \E t \in CtThreads : FifoStep(t)
InitFifo ==
    /\ stalled = 0 /\ HbOff /\ ScInit /\ CfInit /\ LfInit /\ SgInit /\ ScPaired /\ cf_may_lock = {} /\ CtInit /\ LiIdle
    /\ precededBy = [v \in Values |-> {}]
    /\ sut = "queue" /\ Workload
SpecFifo == InitFifo /\ [][FifoNext]_vars

\* one call of reverseList, by a thread of queue::pop that holds the refill lock and
\* has detached a chain from the push list; the nodes not in the chain have been
\* popped
ReverseNext == \E t \in CtThreads : q_reverse(t)
InitReverse ==
    /\ stalled = 0 /\ HbOff /\ OrderOff /\ ScInit /\ CfInit /\ LfInit /\ SgInit /\ ScPaired /\ cf_may_lock = {} /\ LiIdle
    /\ sut = "queue" /\ active = {1} /\ opsLeft = 0 /\ phase = "run"
    /\ m_top = [l \in {"m_freeList", "m_occupiedList", "m_popList"} |->
                  IF l = "m_freeList" THEN head(Null, MaxNodes) ELSE head(Null, 0)]
    /\ m_pushList = Null
    /\ m_refillLock = TRUE
    /\ \E q \in Chains :
            /\ pPrevious = LinksOf(q)
            /\ item = [n \in Nodes |-> IF n \in Range(q) THEN 1 ELSE Vacant]
            /\ local = [t \in CtThreads |->
                          IF t = 1
                          THEN [IdleLocal EXCEPT !.pc = "q_reverse", !.this = "m_popList",
                                                 !.attempt = 2, !.pNode = q[1]]
                          ELSE IdleLocal]
    /\ allocated = MaxNodes
    /\ nextValue = MaxValues + 1
    /\ pushed = Values
    /\ popCount = [v \in Values \cup {Vacant} |-> 0]
    /\ raced = FALSE
    /\ maxLive = MaxValues
SpecReverse == InitReverse /\ [][ReverseNext]_vars

\* threads that lock and lock_shared one single-counter shared_mutex, in a run that
\* keeps track of what happens before what
HbNext == \E t \in LvThreads : ScCalls(t) \/ ScRun(t)
InitHb ==
    /\ stalled = 0 /\ HbInit /\ hb_track = TRUE /\ OrderOff
    /\ ScInit /\ CfInit /\ LfInit /\ SgInit /\ ScPaired /\ cf_may_lock = {} /\ CtIdle /\ LiIdle
SpecHb == InitHb /\ [][HbNext]_vars

\* threads that call pop and push of one node_list whose head has the largest
\* sequence number: UINT_MAX calls of push have succeeded
InitLiWrap ==
    /\ stalled = 0 /\ HbOff /\ OrderOff /\ ScInit /\ CfInit /\ LfInit /\ SgInit /\ ScPaired /\ cf_may_lock = {} /\ CtIdle
    /\ LiAt(0 - 1) /\ li_opsLeft = LiOps
SpecLiWrap == InitLiWrap /\ [][LiNext]_vars

\* tasks that push and pop one queue concurrently, in a run that keeps track of the
\* order of the calls of push
InitOrder ==
    /\ stalled = 0 /\ HbOff /\ ScInit /\ CfInit /\ LfInit /\ SgInit /\ ScPaired /\ cf_may_lock = {} /\ CtInit /\ LiIdle
    /\ precededBy = [v \in Values |-> {}]
    /\ sut = "queue" /\ Workload
SpecOrder == InitOrder /\ [][QueueNext]_vars

\* threads that lock and lock_shared one single-counter shared_mutex and also call
\* unlock_shared() without a lock_shared(); a thread whose lock() threw may call
\* unlock()
ScMisuseNext ==
    \E t \in LvThreads :
        \/ ScCalls(t)
        \/ ScRun(t)
        \/ sc_unlock_shared_unpaired(t)
        \/ sc_unlock_after_throw(t)
InitScMisuse ==
    /\ stalled = 0 /\ HbOff /\ OrderOff /\ ScInit /\ CfInit /\ cf_may_lock = {}
    /\ CtIdle /\ LiIdle /\ LfInit /\ SgInit /\ sc_unpaired = ScUnpaired
SpecScMisuse == InitScMisuse /\ [][ScMisuseNext]_vars

\* threads that call push and pop of one stack_lf
LfNext == LfStep
InitLf ==
    /\ stalled = 0 /\ HbOff /\ OrderOff /\ ScInit /\ CfInit /\ cf_may_lock = {}
    /\ CtIdle /\ LiIdle /\ LfInit /\ SgInit /\ ScPaired
SpecLf == InitLf /\ [][LfNext]_vars

\* threads that call get() of one Singleton<T>
SgNext == SgStep
InitSg ==
    /\ stalled = 0 /\ HbOff /\ OrderOff /\ ScInit /\ CfInit /\ cf_may_lock = {}
    /\ CtIdle /\ LiIdle /\ LfInit /\ SgInit /\ ScPaired
SpecSg == InitSg /\ [][SgNext]_vars
====
